---- MODULE Spec2Model ----
(***************************************************************************)
(* Model of the encrypted subscription registry of AbbonamentiScalea:      *)
(* abbonamenti/database/manager.py (DatabaseManager), with the key holders *)
(* of abbonamenti/security/crypto.py and abbonamenti/security/hmac.py.     *)
(*                                                                         *)
(* The storage file is modelled by its committed content (db); every       *)
(* conn.commit() of the code is one step of the model, so the states       *)
(* between two commits of one operation are states of the model (they are  *)
(* what a concurrent reader, a snapshot or a crash sees).  Fernet and HMAC *)
(* are ideal: a token decrypts only under the key that made it, a          *)
(* signature verifies only for the key and the message that made it.       *)
(***************************************************************************)
EXTENDS Integers, Sequences, FiniteSets, TLC

\* ---------------------------------------------------------------- bounds
MaxClock == 3       \* readings of datetime.now() that stamp a row
MaxBatch == 2       \* rows of one bulk import
MaxKeys == 3        \* key generations (constructions over an empty key directory)
MaxArchives == 1    \* backup files kept in the output directory
MaxTime == 5        \* readings of time.time() by the rate limiter, in ticks

VARIABLES
    db,         \* committed content of the storage file: subscriptions, data_integrity, audit_log
    keyFiles,   \* key directories: "sibling" is db_path.parent/"keys", "custom" any other keys_dir
    keysDir,    \* the keys_dir the DatabaseManager was constructed with
    crypto,     \* self.crypto: the keys held in memory by CryptoManager
    hmac,       \* self.hmac: the key held in memory by HMACManager
    nkeys,      \* number of keys generated so far (source of fresh keys)
    clock,      \* datetime.now()
    pc,         \* position of the manager inside the running operation
    call,       \* arguments and local variables of the running operation
    tx,         \* uncommitted content of the open transaction (bulk import)
    ret,        \* what the last finished operation returned or raised
    archives,   \* encrypted backup files written by perform_secure_backup
    safety,     \* the last pre_restore_backup_<timestamp> directory
    temp,       \* the temporary directory of a running restore
    tempbackup, \* temp_backup_<timestamp>.db and .zip of the last backup call
    other,      \* a second caller (thread or process) on the same files: its position and locals
    requests,   \* RateLimiter.user_requests: per user, the timestamps kept
    granted     \* per user, the timestamps at which is_allowed returned true

vars == <<db, keyFiles, keysDir, crypto, hmac, nkeys, clock, pc, call, tx,
          ret, archives, safety, temp, tempbackup, other, requests, granted>>

\* ------------------------------------------------------- plain values
NoKey == 0                      \* a key file that does not exist
NullText == "<NULL>"            \* SQL NULL in a TEXT column
NullBlob == [k |-> 0, pt |-> "<NULL>"]      \* SQL NULL in a BLOB column
GarbageBlob == [k |-> 0, pt |-> "<garbage>"] \* bytes that are no Fernet token
KeyDirs == {"sibling", "custom"}
NoCall == [op |-> "none"]
NoTx == [open |-> FALSE]
NoDir == [exists |-> FALSE]
NoFile == [exists |-> FALSE]
Users == {1, 2}                 \* Telegram user ids
NoRequests == [u \in Users |-> <<>>]

\* characters of the payment-method strings and str.upper() on them
Upper(c) ==
    CASE c = "p" -> "P" [] c = "o" -> "O" [] c = "s" -> "S"
      [] c = "b" -> "B" [] c = "l" -> "L" [] c = "a" -> "A"
      [] c = "c" -> "C" [] c = "d" -> "D" [] c = "e" -> "E"
      [] c = "i" -> "I" [] c = "n" -> "N" [] c = "r" -> "R"
      [] c = "t" -> "T" [] c = "z" -> "Z" [] OTHER -> c

RECURSIVE LStrip(_)
LStrip(s) == IF s # <<>> /\ Head(s) = " " THEN LStrip(Tail(s)) ELSE s

RECURSIVE RStrip(_)
RStrip(s) ==
    IF s # <<>> /\ s[Len(s)] = " " THEN RStrip(SubSeq(s, 1, Len(s) - 1)) ELSE s

\* payment_method.strip().upper()
StripUpperBug(s) == s
StripUpper(s) == LET t == RStrip(LStrip(s)) IN [i \in 1..Len(t) |-> Upper(t[i])]

\* datetime.isoformat() and datetime.fromisoformat()
Times == 0..(MaxClock + 2)
Isoformat(t) == "T" \o ToString(t)
CanFromIsoformat(s) == \E t \in Times : Isoformat(t) = s
FromIsoformat(s) == CHOOSE t \in Times : Isoformat(t) = s

\* str(payment_details) and float(payment_details_str)
Amounts == {0, 50}
StrOfFloat(x) == ToString(x) \o ".0"
CanFloatOfStr(s) == \E x \in Amounts : StrOfFloat(x) = s
FloatOfStr(s) == CHOOSE x \in Amounts : StrOfFloat(x) = s

\* ------------------------------------------------------------ crypto
\* CryptoManager.encrypt: a Fernet token of the UTF-8 bytes of the text
Encrypt(key, text) == [k |-> key, pt |-> text]

\* CryptoManager.decrypt: InvalidToken unless the token was made under key
CanDecrypt(key, blob) == blob.k = key /\ key # NoKey
Decrypt(key, blob) == blob.pt

\* base64.b64encode(blob).decode(): TypeError on None
CanB64(blob) == blob # NullBlob
B64(blob) == [b64 |-> blob]

\* HMACManager.generate_hmac: HMAC-SHA256 of json.dumps(data, sort_keys=True)
GenerateHmac(key, data) == [k |-> key, msg |-> data]

\* HMACManager.verify_hmac: False instead of an exception
VerifyHmac(key, data, signature) == signature = GenerateHmac(key, data)

\* ------------------------------------------------------ protocol ids
\* A protocol id is the string fmt-prefix, year, "-", digits: "NEW" is
\* YYYY-NNNNNNNNNN, "OLD" is SUB-YY-NNNN.  The digits are kept as a string
\* (a sequence of digits), compared as SQLite compares TEXT.
ThisYear == 2026                \* datetime.now().year
YearShort(year) == year % 100   \* str(year)[2:]

\* the decimal digits of n, and f"{n:010d}"
RECURSIVE Digits(_)
Digits(n) == IF n < 10 THEN <<n>> ELSE Digits(n \div 10) \o <<n % 10>>

RECURSIVE ZeroPad(_, _)
ZeroPad(s, width) == IF Len(s) < width THEN ZeroPad(<<0>> \o s, width) ELSE s

Format010d(n) == ZeroPad(Digits(n), 10)

\* int(s) of a string of digits
RECURSIVE IntOf(_)
IntOf(s) ==
    IF s = <<>> THEN 0 ELSE 10 * IntOf(SubSeq(s, 1, Len(s) - 1)) + s[Len(s)]

\* a < b in the BINARY collation of TEXT values
RECURSIVE StrLess(_, _)
StrLess(a, b) ==
    IF a = <<>> THEN b # <<>>
    ELSE IF b = <<>> THEN FALSE
    ELSE IF Head(a) # Head(b) THEN Head(a) < Head(b)
    ELSE StrLess(Tail(a), Tail(b))

Pid(n) == [fmt |-> "NEW", year |-> ThisYear, digits |-> Format010d(n)]
PidUniverse == {Pid(n) : n \in 1..MaxClock}

\* WHERE protocol_id LIKE '<prefix>%' ORDER BY protocol_id DESC LIMIT 1
Like(subs, fmt, year) == {p \in DOMAIN subs : p.fmt = fmt /\ p.year = year}
OrderByDescLimit1(S) ==
    CHOOSE p \in S : \A q \in S : q = p \/ StrLess(q.digits, p.digits)

\* lines 60-84 and 860-877: the highest sequence number of both formats
HighestSequenceBug(subs) ==
    LET S == Like(subs, "NEW", ThisYear)
    IN  IF S # {} THEN IntOf(OrderByDescLimit1(S).digits) ELSE 0
HighestSequence(subs) ==
    LET news == Like(subs, "NEW", ThisYear)
        olds == Like(subs, "OLD", YearShort(ThisYear))
        result_new == IF news # {} THEN IntOf(OrderByDescLimit1(news).digits) ELSE 0
        result_old == IF olds # {} THEN IntOf(OrderByDescLimit1(olds).digits) ELSE 0
    IN  IF result_new >= result_old THEN result_new ELSE result_old

\* DatabaseManager._get_protocol_id: highest sequence of both formats, plus one
GetProtocolId(subs) == Pid(HighestSequence(subs) + 1)

\* ------------------------------------------------------------- inputs
InputA == [owner_name |-> "Rossi", license_plate |-> "AB123CD",
           email |-> "r@x.it", address |-> "Via Roma 1", mobile |-> "333",
           subscription_start |-> 1, subscription_end |-> 2,
           payment_details |-> 50, payment_method |-> <<"P", "O", "S">>]
InputB == [owner_name |-> "Bianchi", license_plate |-> "zz999zz",
           email |-> "", address |-> "", mobile |-> "",
           subscription_start |-> 2, subscription_end |-> 1,
           payment_details |-> 0, payment_method |-> <<" ", "p", "o", "s">>]
Inputs == {InputA, InputB}

EmptyTable == [q \in {} |-> 0]
EmptyDb == [subs |-> EmptyTable, sigs |-> EmptyTable, audit |-> <<>>]

\* the functions f with p added or replaced, and with p removed
Put(f, p, v) == [q \in DOMAIN f \cup {p} |-> IF q = p THEN v ELSE f[q]]
Drop(f, p) == [q \in DOMAIN f \ {p} |-> f[q]]

\* the row written by the INSERT of add_subscription and bulk_add_subscriptions
InsertRow(key, in, method, now) ==
    [owner_name |-> in.owner_name,
     license_plate |-> in.license_plate,
     email_encrypted |-> Encrypt(key, in.email),
     address_encrypted |-> Encrypt(key, in.address),
     mobile_encrypted |-> Encrypt(key, in.mobile),
     subscription_start |-> Isoformat(in.subscription_start),
     subscription_end |-> Isoformat(in.subscription_end),
     payment_details_encrypted |-> Encrypt(key, StrOfFloat(in.payment_details)),
     payment_method |-> method,
     created_at |-> Isoformat(now),
     updated_at |-> Isoformat(now)]

\* the row after the UPDATE of update_subscription: created_at is kept
UpdateRowBug(old, key, in, method, now) == InsertRow(key, in, method, now)
UpdateRow(old, key, in, method, now) ==
    [InsertRow(key, in, method, now) EXCEPT !.created_at = old.created_at]

\* dict(zip(columns, row)) with the four ciphertext columns base64 encoded
CanCanonical(row) ==
    /\ CanB64(row.email_encrypted)
    /\ CanB64(row.address_encrypted)
    /\ CanB64(row.mobile_encrypted)
    /\ CanB64(row.payment_details_encrypted)
Canonical(p, row) ==
    [protocol_id |-> p,
     owner_name |-> row.owner_name,
     license_plate |-> row.license_plate,
     email_encrypted |-> B64(row.email_encrypted),
     address_encrypted |-> B64(row.address_encrypted),
     mobile_encrypted |-> B64(row.mobile_encrypted),
     subscription_start |-> row.subscription_start,
     subscription_end |-> row.subscription_end,
     payment_details_encrypted |-> B64(row.payment_details_encrypted),
     payment_method |-> row.payment_method,
     created_at |-> row.created_at,
     updated_at |-> row.updated_at]

\* the subscription_data dictionary of an INSERT audit entry
SubscriptionData(p, in, method, now) ==
    [kind |-> "plain", protocol_id |-> p, data |-> in,
     payment_method |-> method,
     created_at |-> Isoformat(now), updated_at |-> Isoformat(now)]

\* DatabaseManager.get_subscription_raw: dict(row), ciphertext columns as stored
GetSubscriptionRawBug(d, p) == [kind |-> "null"]
GetSubscriptionRaw(d, p) ==
    IF p \in DOMAIN d.subs
    THEN [kind |-> "raw", protocol_id |-> p, data |-> d.subs[p]]
    ELSE [kind |-> "null"]

\* None, and SQL NULL in the snapshot columns of audit_log
NullData == [kind |-> "null"]

\* str(b) of a bytes value, what json.dumps(..., default=str) writes for a
\* ciphertext column: the text b'<token>', never the plaintext
StrOfBytes(b) == [repr |-> b]

\* json.dumps(data, default=str) if data else None: the JSON object of a
\* snapshot, key by key
JsonDumps(data) ==
    IF data.kind = "null" THEN NullData
    ELSE IF data.kind = "plain"
    THEN [protocol_id |-> data.protocol_id,
          owner_name |-> data.data.owner_name,
          license_plate |-> data.data.license_plate,
          email |-> data.data.email,
          address |-> data.data.address,
          mobile |-> data.data.mobile,
          subscription_start |-> Isoformat(data.data.subscription_start),
          subscription_end |-> Isoformat(data.data.subscription_end),
          payment_details |-> data.data.payment_details,
          payment_method |-> data.payment_method,
          created_at |-> data.created_at,
          updated_at |-> data.updated_at]
    ELSE [protocol_id |-> data.protocol_id,
          owner_name |-> data.data.owner_name,
          license_plate |-> data.data.license_plate,
          email_encrypted |-> StrOfBytes(data.data.email_encrypted),
          address_encrypted |-> StrOfBytes(data.data.address_encrypted),
          mobile_encrypted |-> StrOfBytes(data.data.mobile_encrypted),
          subscription_start |-> data.data.subscription_start,
          subscription_end |-> data.data.subscription_end,
          payment_details_encrypted |->
              StrOfBytes(data.data.payment_details_encrypted),
          payment_method |-> data.data.payment_method,
          created_at |-> data.data.created_at,
          updated_at |-> data.data.updated_at]

\* id INTEGER PRIMARY KEY AUTOINCREMENT of audit_log
NextAuditIdBug(audit) == 1
NextAuditId(audit) ==
    IF audit = <<>> THEN 1
    ELSE 1 + CHOOSE n \in {audit[i].id : i \in DOMAIN audit} :
                 \A i \in DOMAIN audit : audit[i].id <= n

\* the text of audit_log.timestamp: date, separator, time of day. The
\* clock counts TicksPerSecond readings to the second; local time is
\* UtcOffset ticks ahead of UTC.
TicksPerSecond == 2
TicksPerDay == 8
UtcOffset == 2

\* DEFAULT CURRENT_TIMESTAMP (schema.py:94): 'YYYY-MM-DD HH:MM:SS' in UTC
CurrentTimestamp(t) ==
    [date |-> t \div TicksPerDay, sep |-> " ",
     second |-> (t % TicksPerDay) \div TicksPerSecond, micro |-> 0]

\* datetime.now().isoformat() (manager.py:882, 995):
\* 'YYYY-MM-DDTHH:MM:SS.ffffff' in local time
LocalIsoformat(t) ==
    [date |-> (t + UtcOffset) \div TicksPerDay, sep |-> "T",
     second |-> ((t + UtcOffset) % TicksPerDay) \div TicksPerSecond,
     micro |-> (t + UtcOffset) % TicksPerSecond]

\* the order of TEXT values (BINARY collation) on these texts: the date,
\* then the separator (' ' is 0x20, 'T' is 0x54), then the time of day
SepCode(c) == IF c = " " THEN 32 ELSE 84
TimestampLess(a, b) ==
    \/ a.date < b.date
    \/ /\ a.date = b.date
       /\ \/ SepCode(a.sep) < SepCode(b.sep)
          \/ /\ a.sep = b.sep
             /\ \/ a.second < b.second
                \/ a.second = b.second /\ a.micro < b.micro

\* DatabaseManager._add_audit_log, and the INSERT INTO audit_log of
\* bulk_add_subscriptions, which supplies the timestamp
AddAuditLogBug(d, operation_type, p, before_data, after_data, timestamp) == d
AddAuditLog(d, operation_type, p, before_data, after_data, timestamp) ==
    [d EXCEPT !.audit = Append(@, [id |-> NextAuditId(@),
                                   timestamp |-> timestamp,
                                   operation_type |-> operation_type,
                                   protocol_id |-> p,
                                   before_data |-> JsonDumps(before_data),
                                   after_data |-> JsonDumps(after_data)])]

\* DatabaseManager._update_integrity_signature: sign the row as stored
UpdateIntegritySignature(d, key, p) ==
    IF p \in DOMAIN d.subs
    THEN [d EXCEPT !.sigs = Put(@, p, GenerateHmac(key, Canonical(p, d.subs[p])))]
    ELSE d

\* ------------------------------------------------------------- reads
\* the decryptions and conversions of one row succeed (no InvalidToken, no
\* ValueError of float() or fromisoformat())
CanRead(key, row) ==
    /\ CanDecrypt(key, row.email_encrypted)
    /\ CanDecrypt(key, row.address_encrypted)
    /\ CanDecrypt(key, row.mobile_encrypted)
    /\ CanDecrypt(key, row.payment_details_encrypted)
    /\ CanFloatOfStr(Decrypt(key, row.payment_details_encrypted))
    /\ CanFromIsoformat(row.subscription_start)
    /\ CanFromIsoformat(row.subscription_end)
    /\ CanFromIsoformat(row.created_at)
    /\ CanFromIsoformat(row.updated_at)

\* DatabaseManager.get_subscription
GetSubscription(d, key, p) ==
    IF p \notin DOMAIN d.subs THEN [kind |-> "null"]
    ELSE LET row == d.subs[p] IN
         IF ~CanRead(key, row)
         THEN [kind |-> "raised"]
         ELSE [kind |-> "subscription",
               protocol_id |-> p,
               owner_name |-> row.owner_name,
               license_plate |-> row.license_plate,
               email |-> Decrypt(key, row.email_encrypted),
               address |-> Decrypt(key, row.address_encrypted),
               mobile |-> Decrypt(key, row.mobile_encrypted),
               subscription_start |-> FromIsoformat(row.subscription_start),
               subscription_end |-> FromIsoformat(row.subscription_end),
               payment_details |->
                   FloatOfStr(Decrypt(key, row.payment_details_encrypted)),
               payment_method |-> row.payment_method,
               created_at |-> FromIsoformat(row.created_at),
               updated_at |-> FromIsoformat(row.updated_at)]

\* DatabaseManager.get_all_subscriptions
GetAllSubscriptions(d, key) ==
    IF \E p \in DOMAIN d.subs : GetSubscription(d, key, p).kind = "raised"
    THEN [kind |-> "raised"]
    ELSE [kind |-> "list",
          subs |-> [p \in DOMAIN d.subs |-> GetSubscription(d, key, p)]]

\* DatabaseManager.verify_data_integrity: the scan raises when a ciphertext
\* column cannot be base64 encoded, otherwise one issue per faulty row
VerifyDataIntegrity(d, key) ==
    IF \E p \in DOMAIN d.subs : ~CanCanonical(d.subs[p])
    THEN [kind |-> "raised"]
    ELSE LET missing == {p \in DOMAIN d.subs : p \notin DOMAIN d.sigs}
             failed == {p \in DOMAIN d.subs \ missing :
                          ~VerifyHmac(key, Canonical(p, d.subs[p]), d.sigs[p])}
         IN [kind |-> "result",
             all_valid |-> (missing \cup failed = {}),
             issues |-> {[issue |-> "Missing integrity signature", protocol_id |-> p] :
                            p \in missing}
                        \cup
                        {[issue |-> "Integrity check failed", protocol_id |-> p] :
                            p \in failed}]

\* what conn.commit() and conn.rollback() leave in the storage file
RollbackBug(d, t) == t.d
Rollback(d, t) == d
Commit(d, t) == t.d

\* ---------------------------------------------- construction of key holders
NoKeyDir == [exists |-> FALSE, fernet |-> NoKey, hmac |-> NoKey]

\* CryptoManager.__init__: mkdir, then load each key file or generate the
\* key and write it; the directory afterwards and the keys held in memory
Generates(dir) == dir.fernet = NoKey \/ dir.hmac = NoKey
CryptoManagerFiles(dir, fresh) ==
    [exists |-> TRUE,
     fernet |-> IF dir.fernet # NoKey THEN dir.fernet ELSE fresh,
     hmac |-> IF dir.hmac # NoKey THEN dir.hmac ELSE fresh]
CryptoManagerKeys(dir, fresh) ==
    [fernet |-> CryptoManagerFiles(dir, fresh).fernet,
     hmac |-> CryptoManagerFiles(dir, fresh).hmac]

\* HMACManager.__init__: mkdir, then load hmac_key.bin or generate and write it
HMACManagerFiles(dir, fresh) ==
    [dir EXCEPT !.exists = TRUE, !.hmac = IF @ # NoKey THEN @ ELSE fresh]
HMACManagerKey(dir, fresh) == HMACManagerFiles(dir, fresh).hmac

\* DatabaseManager.__init__ with keys_dir = dir over an empty data directory
Constructed(dir, fresh) ==
    /\ keysDir' = dir
    /\ keyFiles' = [d \in KeyDirs |->
                      IF d = dir
                      THEN HMACManagerFiles(CryptoManagerFiles(NoKeyDir, fresh), fresh)
                      ELSE NoKeyDir]
    /\ crypto' = CryptoManagerKeys(NoKeyDir, fresh)
    /\ hmac' = HMACManagerKey(CryptoManagerFiles(NoKeyDir, fresh), fresh)
    /\ nkeys' = fresh
    /\ db' = EmptyDb

Init ==
    /\ keysDir \in KeyDirs
    /\ keyFiles = [d \in KeyDirs |->
                     IF d = keysDir
                     THEN HMACManagerFiles(CryptoManagerFiles(NoKeyDir, 1), 1)
                     ELSE NoKeyDir]
    /\ crypto = CryptoManagerKeys(NoKeyDir, 1)
    /\ hmac = HMACManagerKey(CryptoManagerFiles(NoKeyDir, 1), 1)
    /\ nkeys = 1
    /\ db = EmptyDb
    /\ clock = 0
    /\ pc = "idle"
    /\ call = NoCall
    /\ tx = NoTx
    /\ ret = NoCall
    /\ archives = <<>>
    /\ safety = NoDir
    /\ temp = NoDir
    /\ tempbackup = [db |-> NoFile, zip |-> NoFile]
    /\ other = NoCall
    /\ requests = NoRequests
    /\ granted = NoRequests

files == <<keyFiles, keysDir, crypto, hmac, nkeys, archives, safety, temp,
           tempbackup, other, requests, granted>>

\* ------------------------------------------------------ add_subscription
\* lines 152-204: normalise, allocate the id, encrypt, INSERT, commit
AddInsert(in) ==
    /\ pc = "idle"
    /\ clock < MaxClock
    /\ LET method == StripUpper(in.payment_method)
           p == GetProtocolId(db.subs)
       IN IF p \in DOMAIN db.subs
          THEN /\ ret' = [op |-> "add", kind |-> "raised", at |-> "insert"]
               /\ UNCHANGED <<db, pc, call>>
          ELSE /\ db' = [db EXCEPT !.subs =
                            Put(@, p, InsertRow(crypto.fernet, in, method, clock))]
               /\ call' = [op |-> "add", args |-> in, protocol_id |-> p,
                           method |-> method, now |-> clock]
               /\ pc' = "add_sign"
               /\ ret' = NoCall
    /\ clock' = clock + 1
    /\ UNCHANGED <<tx, files>>

\* line 206: _update_integrity_signature, its own connection and commit
AddSign ==
    /\ pc = "add_sign"
    /\ db' = UpdateIntegritySignature(db, hmac, call.protocol_id)
    /\ pc' = "add_audit"
    /\ UNCHANGED <<clock, call, tx, ret, files>>

\* lines 208-217: _add_audit_log, its own connection and commit, then return
AddAudit ==
    /\ pc = "add_audit"
    /\ db' = AddAuditLog(db, "INSERT", call.protocol_id, NullData,
                         SubscriptionData(call.protocol_id, call.args,
                                          call.method, call.now),
                         CurrentTimestamp(clock))
    /\ pc' = "idle"
    /\ ret' = [op |-> "add", kind |-> "ok", protocol_id |-> call.protocol_id,
               args |-> call.args]
    /\ call' = NoCall
    /\ UNCHANGED <<clock, tx, files>>

\* --------------------------------------------------- update_subscription
\* lines 234-236: unknown protocol id
UpdateMissing(p) ==
    /\ pc = "idle"
    /\ GetSubscriptionRaw(db, p).kind = "null"
    /\ ret' = [op |-> "update", kind |-> "false", protocol_id |-> p, before |-> db]
    /\ UNCHANGED <<db, clock, pc, call, tx, files>>

\* lines 233-272: snapshot, encrypt, UPDATE, commit
UpdateCommit(p, in) ==
    /\ pc = "idle"
    /\ clock < MaxClock
    /\ GetSubscriptionRaw(db, p).kind # "null"
    /\ db' = [db EXCEPT !.subs[p] =
                 UpdateRow(@, crypto.fernet, in, StripUpper(in.payment_method), clock)]
    /\ call' = [op |-> "update", args |-> in, protocol_id |-> p,
                before_data |-> GetSubscriptionRaw(db, p), now |-> clock]
    /\ clock' = clock + 1
    /\ pc' = "upd_sign"
    /\ ret' = NoCall
    /\ UNCHANGED <<tx, files>>

\* line 274
UpdateSign ==
    /\ pc = "upd_sign"
    /\ db' = UpdateIntegritySignature(db, hmac, call.protocol_id)
    /\ pc' = "upd_audit"
    /\ UNCHANGED <<clock, call, tx, ret, files>>

\* lines 276-287
UpdateAudit ==
    /\ pc = "upd_audit"
    /\ db' = AddAuditLog(db, "UPDATE", call.protocol_id, call.before_data,
                         GetSubscriptionRaw(db, call.protocol_id),
                         CurrentTimestamp(clock))
    /\ pc' = "idle"
    /\ ret' = [op |-> "update", kind |-> "true", protocol_id |-> call.protocol_id]
    /\ call' = NoCall
    /\ UNCHANGED <<clock, tx, files>>

\* --------------------------------------------------- delete_subscription
\* lines 290-292
DeleteMissing(p) ==
    /\ pc = "idle"
    /\ GetSubscriptionRaw(db, p).kind = "null"
    /\ ret' = [op |-> "delete", kind |-> "false", protocol_id |-> p, before |-> db]
    /\ UNCHANGED <<db, clock, pc, call, tx, files>>

\* lines 294-303: the row and its signature go in one commit
DeleteCommit(p) ==
    /\ pc = "idle"
    /\ clock < MaxClock
    /\ GetSubscriptionRaw(db, p).kind # "null"
    /\ db' = [db EXCEPT !.subs = Drop(@, p), !.sigs = Drop(@, p)]
    /\ call' = [op |-> "delete", protocol_id |-> p,
                before_data |-> GetSubscriptionRaw(db, p)]
    /\ clock' = clock + 1
    /\ pc' = "del_audit"
    /\ ret' = NoCall
    /\ UNCHANGED <<tx, files>>

\* lines 305-314
DeleteAudit ==
    /\ pc = "del_audit"
    /\ db' = AddAuditLog(db, "DELETE", call.protocol_id, call.before_data, NullData,
                         CurrentTimestamp(clock))
    /\ pc' = "idle"
    /\ ret' = [op |-> "delete", kind |-> "true", protocol_id |-> call.protocol_id]
    /\ call' = NoCall
    /\ UNCHANGED <<clock, tx, files>>

\* a statement after the first commit of add, update or delete raises
\* (sqlite3.OperationalError, OSError): the exception leaves the method,
\* what was committed stays committed
RaisesBug(c, at) ==
    [op |-> c.op, kind |-> IF c.op = "add" THEN "ok" ELSE "true", at |-> at,
     protocol_id |-> c.protocol_id, call |-> c]
Raises(c, at) ==
    [op |-> c.op, kind |-> "raised", at |-> at,
     protocol_id |-> c.protocol_id, call |-> c]

StepRaises ==
    /\ pc \in {"add_sign", "add_audit", "upd_sign", "upd_audit", "del_audit"}
    /\ ret' = Raises(call, pc)
    /\ pc' = "idle"
    /\ call' = NoCall
    /\ UNCHANGED <<db, clock, tx, files>>

\* ------------------------------------------------ bulk_add_subscriptions
Batches == UNION {[1..n -> Inputs] : n \in 1..MaxBatch}

\* lines 846-877: BEGIN TRANSACTION, base of the protocol ids
BulkBegin(rows) ==
    /\ pc = "idle"
    /\ clock + Len(rows) <= MaxClock
    /\ tx' = [open |-> TRUE, d |-> db]
    /\ call' = [op |-> "bulk", rows |-> rows, idx |-> 0,
                last_id |-> HighestSequence(db.subs), before |-> db]
    /\ pc' = "bulk"
    /\ ret' = NoCall
    /\ UNCHANGED <<db, clock, files>>

\* lines 879-1001: one turn of the loop, inside the transaction
BulkRow ==
    /\ pc = "bulk"
    /\ call.idx < Len(call.rows)
    /\ LET in == call.rows[call.idx + 1]
           p == Pid(call.last_id + call.idx + 1)
           row == InsertRow(crypto.fernet, in, in.payment_method, clock)
           signature == GenerateHmac(hmac, Canonical(p, row))
       IN IF p \in DOMAIN tx.d.subs \/ p \in DOMAIN tx.d.sigs
          THEN \* sqlite3.IntegrityError: except branch, lines 1007-1010
               /\ db' = Rollback(db, tx)
               /\ tx' = NoTx
               /\ pc' = "idle"
               /\ ret' = [op |-> "bulk", kind |-> "false", before |-> call.before,
                          failed_at |-> call.idx, total |-> Len(call.rows),
                          cause |-> "row"]
               /\ call' = NoCall
          ELSE /\ tx' = [tx EXCEPT !.d =
                           AddAuditLog([subs |-> Put(tx.d.subs, p, row),
                                        sigs |-> Put(tx.d.sigs, p, signature),
                                        audit |-> tx.d.audit],
                                       "INSERT", p, NullData,
                                       SubscriptionData(p, in, in.payment_method, clock),
                                       LocalIsoformat(clock))]
               /\ call' = [call EXCEPT !.idx = @ + 1]
               /\ UNCHANGED <<db, pc, ret>>
    /\ clock' = clock + 1
    /\ UNCHANGED files

\* an exception inside the try block (a row, the progress callback, the
\* commit): lines 1007-1010
BulkFail ==
    /\ pc = "bulk"
    /\ db' = Rollback(db, tx)
    /\ tx' = NoTx
    /\ pc' = "idle"
    /\ ret' = [op |-> "bulk", kind |-> "false", before |-> call.before,
               failed_at |-> call.idx, total |-> Len(call.rows),
               cause |-> "exception"]
    /\ call' = NoCall
    /\ UNCHANGED <<clock, files>>

\* lines 1003-1005
BulkCommit ==
    /\ pc = "bulk"
    /\ call.idx = Len(call.rows)
    /\ db' = Commit(db, tx)
    /\ tx' = NoTx
    /\ pc' = "idle"
    /\ ret' = [op |-> "bulk", kind |-> "true", total |-> Len(call.rows),
               before |-> call.before]
    /\ call' = NoCall
    /\ UNCHANGED <<clock, files>>

\* ------------------------------------------------------------- queries
Verify ==
    /\ pc = "idle"
    /\ ret' = [op |-> "verify", result |-> VerifyDataIntegrity(db, hmac)]
    /\ UNCHANGED <<db, clock, pc, call, tx, files>>

Store ==
    \/ \E in \in Inputs : AddInsert(in)
    \/ AddSign
    \/ AddAudit
    \/ \E p \in PidUniverse : UpdateMissing(p)
    \/ \E p \in PidUniverse, in \in Inputs : UpdateCommit(p, in)
    \/ UpdateSign
    \/ UpdateAudit
    \/ \E p \in PidUniverse : DeleteMissing(p)
    \/ \E p \in PidUniverse : DeleteCommit(p)
    \/ DeleteAudit
    \/ StepRaises
    \/ \E rows \in Batches : BulkBegin(rows)
    \/ BulkRow
    \/ BulkFail
    \/ BulkCommit
    \/ Verify

Next == Store

Spec == Init /\ [][Next]_vars

\* ----------------------------------- constructions, statement by statement
\* _load_or_generate_fernet_key, _load_or_generate_hmac_key (crypto.py) and
\* _load_or_generate_key (hmac.py) on a key file holding file (NoKey: the
\* file does not exist), with fresh the key a generation would return: the
\* key returned, the file afterwards, and whether a key was generated
LoadOrGenerateBug(file, fresh) ==
    [key |-> fresh, file |-> fresh, generated |-> TRUE]
LoadOrGenerate(file, fresh) ==
    IF file # NoKey
    THEN [key |-> file, file |-> file, generated |-> FALSE]
    ELSE [key |-> fresh, file |-> fresh, generated |-> TRUE]

\* the key files the constructor of each class loads or generates, in order
KeySteps(class) ==
    CASE class = "CryptoManager" -> <<"fernet", "hmac">>
      [] class = "HMACManager" -> <<"hmac">>
      [] class = "DatabaseManager" -> <<"fernet", "hmac", "hmac">>

\* __init__ of another instance over the key directory dir: mkdir
ConstructBegin(class, dir) ==
    /\ pc = "idle"
    /\ keyFiles' = [keyFiles EXCEPT ![dir].exists = TRUE]
    /\ call' = [op |-> "construct", class |-> class, dir |-> dir,
                pre |-> keyFiles[dir], held |-> <<>>, generated |-> <<>>]
    /\ pc' = "construct"
    /\ ret' = NoCall
    /\ UNCHANGED <<db, clock, tx, keysDir, crypto, hmac, nkeys, archives,
                   safety, temp, tempbackup, other, requests, granted>>

\* the next load-or-generate call of the constructor
ConstructStep ==
    /\ pc = "construct"
    /\ Len(call.held) < Len(KeySteps(call.class))
    /\ LET n == KeySteps(call.class)[Len(call.held) + 1]
           r == LoadOrGenerate(IF n = "fernet" THEN keyFiles[call.dir].fernet
                               ELSE keyFiles[call.dir].hmac, nkeys + 1)
       IN /\ r.generated => nkeys < MaxKeys
          /\ keyFiles' = IF n = "fernet"
                         THEN [keyFiles EXCEPT ![call.dir].fernet = r.file]
                         ELSE [keyFiles EXCEPT ![call.dir].hmac = r.file]
          /\ nkeys' = IF r.generated THEN nkeys + 1 ELSE nkeys
          /\ call' = [call EXCEPT !.held = Append(@, r.key),
                                  !.generated = Append(@, r.generated)]
    /\ UNCHANGED <<db, clock, tx, keysDir, crypto, hmac, pc, ret, archives,
                   safety, temp, tempbackup, other, requests, granted>>

\* the constructor returns the instance with the keys it holds
ConstructReturn ==
    /\ pc = "construct"
    /\ Len(call.held) = Len(KeySteps(call.class))
    /\ ret' = call
    /\ call' = NoCall
    /\ pc' = "idle"
    /\ UNCHANGED <<db, clock, tx, keyFiles, keysDir, crypto, hmac, nkeys,
                   archives, safety, temp, tempbackup, other, requests, granted>>

\* a key file is removed from outside the program
RemoveKeyFile(dir, n) ==
    /\ pc = "idle"
    /\ nkeys < MaxKeys
    /\ IF n = "fernet" THEN keyFiles[dir].fernet # NoKey
                       ELSE keyFiles[dir].hmac # NoKey
    /\ keyFiles' = IF n = "fernet"
                   THEN [keyFiles EXCEPT ![dir].fernet = NoKey]
                   ELSE [keyFiles EXCEPT ![dir].hmac = NoKey]
    /\ ret' = NoCall
    /\ UNCHANGED <<db, clock, tx, keysDir, crypto, hmac, nkeys, pc, call,
                   archives, safety, temp, tempbackup, other, requests, granted>>

NextKeys ==
    \/ \E class \in {"CryptoManager", "HMACManager", "DatabaseManager"},
          dir \in KeyDirs : ConstructBegin(class, dir)
    \/ ConstructStep
    \/ ConstructReturn
    \/ \E dir \in KeyDirs, n \in {"fernet", "hmac"} : RemoveKeyFile(dir, n)

SpecKeys == Init /\ [][NextKeys]_vars

\* ---------------------------------------------------- queries on the log
\* WHERE operation_type = ? when an operation type is given
Matching(audit, operation_type) ==
    {i \in DOMAIN audit :
        operation_type = NullText \/ audit[i].operation_type = operation_type}

\* ORDER BY timestamp DESC on the rows M: every order of the rows in which
\* no row comes before a row with a greater timestamp (SQLite does not fix
\* the order of rows with equal timestamps)
OrderByTimestampDesc(audit, M) ==
    {s \in [1..Cardinality(M) -> M] :
        /\ \A i, j \in DOMAIN s : i # j => s[i] # s[j]
        /\ \A i, j \in DOMAIN s :
              i < j => ~TimestampLess(audit[s[i]].timestamp, audit[s[j]].timestamp)}

\* LIMIT ?
Limit(s, limit) == SubSeq(s, 1, IF Len(s) < limit THEN Len(s) ELSE limit)

\* DatabaseManager.get_audit_log_entries: the lists it can return
GetAuditLogEntries(d, operation_type, limit) ==
    {[k \in DOMAIN Limit(s, limit) |-> d.audit[Limit(s, limit)[k]]] :
        s \in OrderByTimestampDesc(d.audit, Matching(d.audit, operation_type))}

OperationTypes == {NullText, "INSERT", "DELETE"}
Limits == {1, 2}

AuditQuery(operation_type, limit) ==
    /\ pc = "idle"
    /\ \E entries \in GetAuditLogEntries(db, operation_type, limit) :
          ret' = [op |-> "audit_query", operation_type |-> operation_type,
                  limit |-> limit, entries |-> entries, log |-> db.audit]
    /\ UNCHANGED <<db, clock, pc, call, tx, files>>

NextAudit ==
    \/ \E in \in Inputs : AddInsert(in)
    \/ AddSign
    \/ AddAudit
    \/ \E p \in PidUniverse : DeleteCommit(p)
    \/ DeleteAudit
    \/ \E rows \in Batches : BulkBegin(rows)
    \/ BulkRow
    \/ BulkCommit
    \/ \E operation_type \in OperationTypes, limit \in Limits :
          AuditQuery(operation_type, limit)

SpecAudit == Init /\ [][NextAudit]_vars

\* ---------------------------------------------------- search_subscriptions
\* the characters of the values of owner_name and license_plate
Chars(s) ==
    CASE s = "Rossi" -> <<"R", "o", "s", "s", "i">>
      [] s = "AB123CD" -> <<"A", "B", "1", "2", "3", "C", "D">>
      [] s = "Bianchi" -> <<"B", "i", "a", "n", "c", "h", "i">>
      [] s = "zz999zz" -> <<"z", "z", "9", "9", "9", "z", "z">>

\* the characters of a protocol id as stored
PidText(p) ==
    LET digits == [i \in DOMAIN p.digits |-> ToString(p.digits[i])]
        year == [i \in DOMAIN Digits(p.year) |-> ToString(Digits(p.year)[i])]
    IN  IF p.fmt = "NEW" THEN year \o <<"-">> \o digits
        ELSE <<"S", "U", "B", "-">> \o year \o <<"-">> \o digits

\* the case folding of LIKE: the upper-case ASCII letters
Fold(c) ==
    CASE c = "A" -> "a" [] c = "B" -> "b" [] c = "C" -> "c" [] c = "D" -> "d"
      [] c = "R" -> "r" [] c = "S" -> "s" [] c = "U" -> "u" [] c = "Z" -> "z"
      [] OTHER -> c

\* text LIKE pattern, without ESCAPE: '%' stands for any run of
\* characters, '_' for any one character, a letter for itself in either case
RECURSIVE LikeMatch(_, _)
LikeMatch(pattern, text) ==
    IF pattern = <<>> THEN text = <<>>
    ELSE IF Head(pattern) = "%"
    THEN \/ LikeMatch(Tail(pattern), text)
         \/ text # <<>> /\ LikeMatch(pattern, Tail(text))
    ELSE /\ text # <<>>
         /\ Head(pattern) = "_" \/ Fold(Head(pattern)) = Fold(Head(text))
         /\ LikeMatch(Tail(pattern), Tail(text))

\* f"%{query}%" (line 474)
SearchPattern(query) == <<"%">> \o query \o <<"%">>

\* DatabaseManager.search_subscriptions: the rows selected, decrypted
SearchSubscriptions(d, key, query) ==
    LET rows == {p \in DOMAIN d.subs :
                    \/ LikeMatch(SearchPattern(query), PidText(p))
                    \/ LikeMatch(SearchPattern(query), Chars(d.subs[p].owner_name))
                    \/ LikeMatch(SearchPattern(query), Chars(d.subs[p].license_plate))}
    IN  IF \E p \in rows : GetSubscription(d, key, p).kind = "raised"
        THEN [kind |-> "raised"]
        ELSE [kind |-> "list",
              subs |-> [p \in rows |-> GetSubscription(d, key, p)]]

Queries ==
    {<<"a", "b", "1", "2", "3">>, <<"9", "9">>, <<"2", "0", "2", "6", "-">>,
     <<"q">>, <<"%">>, <<"R", "_", "s">>}

Search(query) ==
    /\ pc = "idle"
    /\ ret' = [op |-> "search", query |-> query,
               result |-> SearchSubscriptions(db, crypto.fernet, query)]
    /\ UNCHANGED <<db, clock, pc, call, tx, files>>

NextSearch ==
    \/ \E in \in Inputs : AddInsert(in)
    \/ AddSign
    \/ AddAudit
    \/ \E p \in PidUniverse : DeleteCommit(p)
    \/ DeleteAudit
    \/ \E query \in Queries : Search(query)

SpecSearch == Init /\ [][NextSearch]_vars

\* ----------------------------------------------- get_subscriptions_by_plate
\* UPPER(x) of SQLite on a TEXT value
SqlUpperBug(s) == s
SqlUpper(s) == [i \in DOMAIN s |-> Upper(s[i])]

\* DatabaseManager.get_subscriptions_by_plate: the five columns selected of
\* the rows with UPPER(license_plate) = UPPER(?), the dates parsed
GetSubscriptionsByPlate(d, license_plate) ==
    LET rows == {p \in DOMAIN d.subs :
                    SqlUpper(Chars(d.subs[p].license_plate)) = SqlUpper(license_plate)}
    IN  IF \E p \in rows : \/ ~CanFromIsoformat(d.subs[p].subscription_start)
                           \/ ~CanFromIsoformat(d.subs[p].subscription_end)
        THEN [kind |-> "raised"]
        ELSE [kind |-> "list",
              subs |-> [p \in rows |->
                          [protocol_id |-> p,
                           owner_name |-> d.subs[p].owner_name,
                           license_plate |-> d.subs[p].license_plate,
                           subscription_start |->
                               FromIsoformat(d.subs[p].subscription_start),
                           subscription_end |->
                               FromIsoformat(d.subs[p].subscription_end)]]]

Plates ==
    {<<"A", "B", "1", "2", "3", "C", "D">>, <<"a", "b", "1", "2", "3", "c", "d">>,
     <<"Z", "Z", "9", "9", "9", "z", "z">>, <<"A", "B", "1", "2", "3">>,
     <<"z", "z", "9", "9", "9", "z", "z", "z">>}

ByPlate(license_plate) ==
    /\ pc = "idle"
    /\ ret' = [op |-> "by_plate", license_plate |-> license_plate,
               result |-> GetSubscriptionsByPlate(db, license_plate)]
    /\ UNCHANGED <<db, clock, pc, call, tx, files>>

NextPlate ==
    \/ \E in \in Inputs : AddInsert(in)
    \/ AddSign
    \/ AddAudit
    \/ \E p \in PidUniverse : DeleteCommit(p)
    \/ DeleteAudit
    \/ \E license_plate \in Plates : ByPlate(license_plate)

SpecPlate == Init /\ [][NextPlate]_vars

\* ------------------------------------------------ _normalize_payment_method
POS == <<"P", "O", "S">>
BOLLETTINO == <<"B", "O", "L", "L", "E", "T", "T", "I", "N", "O">>

\* str.startswith
StartsWith(s, prefix) ==
    Len(s) >= Len(prefix) /\ SubSeq(s, 1, Len(prefix)) = prefix

\* DatabaseManager._normalize_payment_method
NormalizePaymentMethodBug(method) == StripUpper(method)
NormalizePaymentMethod(method) ==
    IF method = <<>> THEN <<>>
    ELSE LET normalized == StripUpper(method)
         IN  IF normalized \in {POS, <<"C", "A", "R", "D">>,
                                <<"C", "A", "R", "T", "E">>,
                                <<"C", "A", "R", "T", "A">>}
             THEN POS
             ELSE IF \/ StartsWith(normalized, <<"B", "O", "L", "L">>)
                     \/ StartsWith(normalized, <<"B", "O", "L">>)
             THEN BOLLETTINO
             ELSE normalized

\* method strings: a word in lower case, in upper case or capitalised,
\* with or without a blank before and after it
CardWords ==
    {<<"p", "o", "s">>, <<"c", "a", "r", "d">>, <<"c", "a", "r", "t", "e">>,
     <<"c", "a", "r", "t", "a">>}
BolWords ==
    {<<"b", "o", "l", "l", "e", "t", "t", "i", "n", "o">>, <<"b", "o", "l", "l">>,
     <<"b", "o", "l">>, <<"b", "o", "l", "l", "o">>}
OtherWords ==
    {<<"c", "o", "n", "t", "a", "n", "t", "i">>, <<"b", "o", "n", "i", "f", "i", "c", "o">>,
     <<"c", "a", "r", "t">>, <<"b", "o">>, <<>>}
Words == CardWords \cup BolWords \cup OtherWords

Cased(word, case) ==
    CASE case = "lower" -> word
      [] case = "upper" -> [i \in DOMAIN word |-> Upper(word[i])]
      [] case = "capitalised" ->
            [i \in DOMAIN word |-> IF i = 1 THEN Upper(word[i]) ELSE word[i]]

Padded(word, before, after) ==
    (IF before THEN <<" ">> ELSE <<>>) \o word \o (IF after THEN <<" ">> ELSE <<>>)

\* a method string is about to be normalised
InitNormalize ==
    /\ keysDir \in KeyDirs
    /\ keyFiles = [d \in KeyDirs |->
                     IF d = keysDir
                     THEN HMACManagerFiles(CryptoManagerFiles(NoKeyDir, 1), 1)
                     ELSE NoKeyDir]
    /\ crypto = CryptoManagerKeys(NoKeyDir, 1)
    /\ hmac = HMACManagerKey(CryptoManagerFiles(NoKeyDir, 1), 1)
    /\ nkeys = 1
    /\ db = EmptyDb
    /\ clock = 0
    /\ pc = "idle"
    /\ tx = NoTx
    /\ ret = NoCall
    /\ archives = <<>>
    /\ safety = NoDir
    /\ temp = NoDir
    /\ tempbackup = [db |-> NoFile, zip |-> NoFile]
    /\ other = NoCall
    /\ requests = NoRequests
    /\ granted = NoRequests
    /\ \E word \in Words, case \in {"lower", "upper", "capitalised"},
          before \in BOOLEAN, after \in BOOLEAN :
          call = [op |-> "normalize", word |-> word,
                  method |-> Padded(Cased(word, case), before, after)]

\* _normalize_payment_method(method)
Normalize ==
    /\ pc = "idle"
    /\ call.op = "normalize"
    /\ ret.op = "none"
    /\ ret' = [op |-> "normalize", word |-> call.word, method |-> call.method,
               normalized |-> NormalizePaymentMethod(call.method)]
    /\ UNCHANGED <<db, clock, pc, call, tx, files>>

\* _normalize_payment_method of the label it returned
NormalizeAgain ==
    /\ pc = "idle"
    /\ ret.op = "normalize"
    /\ ret' = [op |-> "normalized_again", word |-> ret.word,
               method |-> ret.normalized,
               normalized |-> NormalizePaymentMethod(ret.normalized)]
    /\ UNCHANGED <<db, clock, pc, call, tx, files>>

NextNormalize == Normalize \/ NormalizeAgain

SpecNormalize == InitNormalize /\ [][NextNormalize]_vars

\* ------------------------------------------- readers on other connections
\* what a SELECT on a connection of its own finds while the connection of
\* the bulk import holds the open transaction t over the committed content
\* d: the journal mode is WAL (line 35), so the reader is not blocked and
\* reads the last committed content
ReadCommittedBug(d, t) == IF t.open THEN t.d ELSE d
ReadCommitted(d, t) == d

\* get_all_subscriptions, search_subscriptions, get_subscriptions_by_plate,
\* get_audit_log_entries or verify_data_integrity called by another thread
\* or process (the bot) while the bulk import runs or right after it
\* returned: the rows, signatures and audit entries its connection finds
ReaderQuery ==
    /\ \/ /\ pc = "bulk"
          /\ ret' = [op |-> "reader", seen |-> ReadCommitted(db, tx),
                     before |-> call.before, total |-> Len(call.rows),
                     idx |-> call.idx, during |-> TRUE]
       \/ /\ pc = "idle"
          /\ ret.op = "bulk"
          /\ ret' = [op |-> "reader", seen |-> ReadCommitted(db, tx),
                     before |-> ret.before, total |-> ret.total,
                     idx |-> ret.total, during |-> FALSE]
    /\ UNCHANGED <<db, clock, pc, call, tx, files>>

NextReaders ==
    \/ \E in \in Inputs : AddInsert(in)
    \/ AddSign
    \/ AddAudit
    \/ \E rows \in Batches : BulkBegin(rows)
    \/ BulkRow
    \/ BulkFail
    \/ BulkCommit
    \/ ReaderQuery

SpecReaders == Init /\ [][NextReaders]_vars

\* ------------------------------------------ _get_current_user_info fails
\* os.getlogin() raises OSError (no controlling terminal) or
\* socket.gethostbyname() raises socket.gaierror: line 155 of
\* add_subscription, before the INSERT
AddUserInfoRaises ==
    /\ pc = "idle"
    /\ ret' = [op |-> "add", kind |-> "raised", at |-> "user_info", before |-> db]
    /\ UNCHANGED <<db, clock, pc, call, tx, files>>

\* line 239 of update_subscription, before the UPDATE
UpdateUserInfoRaises(p) ==
    /\ pc = "idle"
    /\ GetSubscriptionRaw(db, p).kind # "null"
    /\ ret' = [op |-> "update", kind |-> "raised", at |-> "user_info",
               before |-> db, protocol_id |-> p]
    /\ UNCHANGED <<db, clock, pc, call, tx, files>>

\* line 294 of delete_subscription, before the DELETE
DeleteUserInfoRaises(p) ==
    /\ pc = "idle"
    /\ GetSubscriptionRaw(db, p).kind # "null"
    /\ ret' = [op |-> "delete", kind |-> "raised", at |-> "user_info",
               before |-> db, protocol_id |-> p]
    /\ UNCHANGED <<db, clock, pc, call, tx, files>>

\* line 851 of bulk_add_subscriptions, inside the try block: rollback and
\* (False, str(e)), lines 1007-1010
BulkUserInfoFails(rows) ==
    /\ pc = "idle"
    /\ ret' = [op |-> "bulk", kind |-> "false", before |-> db,
               failed_at |-> 0, total |-> Len(rows), cause |-> "user_info"]
    /\ UNCHANGED <<db, clock, pc, call, tx, files>>

\* the store on a machine where the user name, the host name or the IP
\* address cannot always be obtained
NextUserInfo ==
    \/ \E in \in Inputs : AddInsert(in)
    \/ AddSign
    \/ AddAudit
    \/ \E p \in PidUniverse : UpdateCommit(p, InputB)
    \/ UpdateSign
    \/ UpdateAudit
    \/ \E p \in PidUniverse : DeleteCommit(p)
    \/ DeleteAudit
    \/ \E rows \in Batches : BulkBegin(rows)
    \/ BulkRow
    \/ BulkCommit
    \/ AddUserInfoRaises
    \/ \E p \in PidUniverse : UpdateUserInfoRaises(p)
    \/ \E p \in PidUniverse : DeleteUserInfoRaises(p)
    \/ \E rows \in Batches : BulkUserInfoFails(rows)

SpecUserInfo == Init /\ [][NextUserInfo]_vars

\* ------------------------------------- allocation over a table with history
\* protocol ids of records that an earlier version of the program, or an
\* earlier year, left in the table
StoredIds ==
    {[fmt |-> "NEW", year |-> ThisYear, digits |-> Format010d(5)],
     [fmt |-> "OLD", year |-> YearShort(ThisYear), digits |-> <<0, 0, 0, 3>>],
     [fmt |-> "OLD", year |-> YearShort(ThisYear), digits |-> <<0, 0, 0, 7>>],
     [fmt |-> "NEW", year |-> ThisYear - 1, digits |-> Format010d(9)],
     [fmt |-> "OLD", year |-> YearShort(ThisYear - 1), digits |-> <<0, 0, 0, 9>>]}

StoredRow == InsertRow(1, InputA, InputA.payment_method, 0)

StoredDb(S) ==
    [subs |-> [p \in S |-> StoredRow],
     sigs |-> [p \in S |-> GenerateHmac(1, Canonical(p, StoredRow))],
     audit |-> <<>>]

\* DatabaseManager.__init__ over a storage file that holds such records
InitAlloc ==
    /\ keysDir = "sibling"
    /\ keyFiles = [d \in KeyDirs |->
                     IF d = keysDir
                     THEN HMACManagerFiles(CryptoManagerFiles(NoKeyDir, 1), 1)
                     ELSE NoKeyDir]
    /\ crypto = CryptoManagerKeys(NoKeyDir, 1)
    /\ hmac = HMACManagerKey(CryptoManagerFiles(NoKeyDir, 1), 1)
    /\ nkeys = 1
    /\ db \in {StoredDb(S) : S \in SUBSET StoredIds}
    /\ clock = 0
    /\ pc = "idle"
    /\ call = NoCall
    /\ tx = NoTx
    /\ ret = NoCall
    /\ archives = <<>>
    /\ safety = NoDir
    /\ temp = NoDir
    /\ tempbackup = [db |-> NoFile, zip |-> NoFile]
    /\ other = NoCall
    /\ requests = NoRequests
    /\ granted = NoRequests

\* insertions, bulk imports and deletions
NextAlloc ==
    \/ \E in \in Inputs : AddInsert(in)
    \/ AddSign
    \/ AddAudit
    \/ \E rows \in Batches : BulkBegin(rows)
    \/ BulkRow
    \/ BulkFail
    \/ BulkCommit
    \/ \E p \in DOMAIN db.subs : DeleteCommit(p)
    \/ DeleteAudit

SpecAlloc == InitAlloc /\ [][NextAlloc]_vars

\* --------------------------------------------- out-of-band modification
\* the stored row of p and its signature agree under the key in use
Intact(d, key, p) ==
    /\ p \in DOMAIN d.subs
    /\ p \in DOMAIN d.sigs
    /\ CanCanonical(d.subs[p])
    /\ VerifyHmac(key, Canonical(p, d.subs[p]), d.sigs[p])

TamperedRows(row) ==
    {[row EXCEPT !.owner_name = "Mallory"],
     [row EXCEPT !.email_encrypted = GarbageBlob],
     [row EXCEPT !.email_encrypted = NullBlob],
     [row EXCEPT !.updated_at = NullText]}

\* another program writes a signed column of the stored row of p
TamperRow(p) ==
    /\ pc = "idle"
    /\ clock < MaxClock
    /\ Intact(db, hmac, p)
    /\ \E row \in TamperedRows(db.subs[p]) :
          /\ row # db.subs[p]
          /\ db' = [db EXCEPT !.subs[p] = row]
    /\ ret' = [op |-> "tamper", protocol_id |-> p]
    /\ clock' = clock + 1
    /\ UNCHANGED <<pc, call, tx, files>>

\* another program overwrites or deletes the data_integrity row of p
TamperSignature(p) ==
    /\ pc = "idle"
    /\ clock < MaxClock
    /\ Intact(db, hmac, p)
    /\ \/ db' = [db EXCEPT !.sigs[p] = [@ EXCEPT !.k = NoKey]]
       \/ db' = [db EXCEPT !.sigs = Drop(@, p)]
    /\ ret' = [op |-> "tamper", protocol_id |-> p]
    /\ clock' = clock + 1
    /\ UNCHANGED <<pc, call, tx, files>>

Tamper == \E p \in PidUniverse : TamperRow(p) \/ TamperSignature(p)

\* insertions and updates, out-of-band modifications, integrity checks
NextTamper ==
    \/ \E in \in Inputs : AddInsert(in)
    \/ AddSign
    \/ AddAudit
    \/ \E p \in PidUniverse, in \in Inputs : UpdateCommit(p, in)
    \/ UpdateSign
    \/ UpdateAudit
    \/ Tamper
    \/ Verify

SpecTamper == Init /\ [][NextTamper]_vars

\* ---------------------------------------------------- backup archives
BackupMagicHeader == "87029"
FullBackupVersion == 1
MinPassphraseLen == 16

PassGood == [id |-> "P", len |-> 16]
PassOther == [id |-> "Q", len |-> 20]
PassShort == [id |-> "S", len |-> 15]
Passphrases == {PassGood, PassOther, PassShort}

\* derive_key_from_passphrase: ValueError below 16 characters, otherwise the
\* PBKDF2 key of the passphrase and the salt
WeakMessage == "Passphrase deve essere di almeno 16 caratteri"
CanDeriveBug(pass) == TRUE
CanDerive(pass) == pass.len >= MinPassphraseLen
DeriveKey(pass, salt) == [pass |-> pass.id, salt |-> salt]

\* encrypt_with_key and decrypt_with_key: InvalidToken unless the token is
\* intact and was made under the same key
EncryptWithKey(data, key) == [key |-> key, data |-> data, intact |-> TRUE]
CanDecryptWithKeyBug(token, key) == TRUE
CanDecryptWithKey(token, key) == token.intact /\ token.key = key
DecryptWithKey(token, key) == token.data

\* lines 1063-1075: database.db and the key files found in db_path.parent/"keys"
PackageArchive(d, sibling) ==
    [database |-> [exists |-> TRUE, content |-> d],
     keys |-> [exists |-> (sibling.fernet # NoKey \/ sibling.hmac # NoKey),
               fernet |-> sibling.fernet,
               hmac |-> sibling.hmac]]

\* the registry as it was when an archive was made (history, not file content)
Made(pass) ==
    [pass |-> pass.id,
     records |-> GetAllSubscriptions(db, crypto.fernet),
     verify |-> VerifyDataIntegrity(db, hmac),
     keys |-> keyFiles[keysDir]]

\* DatabaseManager.perform_secure_backup
PerformSecureBackup(pass) ==
    /\ pc = "idle"
    /\ Len(archives) < MaxArchives
    /\ clock < MaxClock
    /\ IF ~CanDerive(pass)
       THEN /\ ret' = [op |-> "backup", kind |-> "false",
                       message |-> WeakMessage, pass |-> pass]
            /\ UNCHANGED <<archives, clock>>
       ELSE LET salt == Len(archives) + 1
                zip == PackageArchive(db, keyFiles["sibling"])
            IN /\ archives' = Append(archives,
                                [magic |-> BackupMagicHeader,
                                 version |-> FullBackupVersion,
                                 salt |-> salt,
                                 encrypted_data |->
                                     EncryptWithKey(zip, DeriveKey(pass, salt)),
                                 made |-> Made(pass)])
               /\ ret' = [op |-> "backup", kind |-> "true",
                          file |-> Len(archives) + 1, pass |-> pass]
               /\ clock' = clock + 1
    /\ UNCHANGED <<db, keyFiles, keysDir, crypto, hmac, nkeys, pc, call,
                   tx, safety, temp, tempbackup, other, requests, granted>>

\* bytes of the ciphertext of a backup file change on the medium
CorruptArchive(i) ==
    /\ pc = "idle"
    /\ archives[i].encrypted_data.intact
    /\ archives' = [archives EXCEPT ![i].encrypted_data.intact = FALSE]
    /\ UNCHANGED <<db, keyFiles, keysDir, crypto, hmac, nkeys, clock, pc, call,
                   tx, ret, safety, temp, tempbackup, other, requests, granted>>

\* the operator sets up another registry (DatabaseManager.__init__ over an
\* empty data directory) and carries the backup files over
NewInstall(dir) ==
    /\ pc = "idle"
    /\ nkeys < MaxKeys
    /\ Constructed(dir, nkeys + 1)
    /\ safety' = NoDir
    /\ ret' = [op |-> "install"]
    /\ UNCHANGED <<clock, pc, call, tx, archives, temp, tempbackup, other, requests, granted>>

\* ------------------------------------------------- restore_secure_backup
WrongPassphraseMessage == "Passphrase non corretta o backup danneggiato"
NotOurFormatMessage == "File non valido: non e' un backup di AbbonaMunicipale"
UnsupportedVersionMessage == "Versione backup non supportata"

\* lines 1169-1180: the magic header and the version byte of the file; the
\* message of the refusal, "" when the header is accepted
ReadHeaderBug(f) == ""
ReadHeader(f) ==
    IF f.magic # BackupMagicHeader THEN NotOurFormatMessage
    ELSE IF f.version # FullBackupVersion THEN UnsupportedVersionMessage
    ELSE ""

Live == [db |-> db, keyFiles |-> keyFiles, crypto |-> crypto, hmac |-> hmac,
         safety |-> safety]

\* progress_callback(step, total_steps, message): the calls received so far
ProgressCallbackBug(log, step, total_steps) == log
ProgressCallback(log, step, total_steps) ==
    Append(log, [step |-> step, total_steps |-> total_steps])

\* the calls received when the steps 1..n of total_steps were announced
RECURSIVE Announced(_, _)
Announced(n, total_steps) ==
    IF n = 0 THEN <<>>
    ELSE ProgressCallback(Announced(n - 1, total_steps), n, total_steps)

RestoreRefused(i, pass, message, announced) ==
    /\ ret' = [op |-> "restore", kind |-> "false", message |-> message,
               file |-> i, pass |-> pass, fault |-> FALSE, at |-> "read",
               intact |-> archives[i].encrypted_data.intact, pre |-> Live,
               progress |-> Announced(announced, 5)]
    /\ UNCHANGED <<pc, call, temp, clock>>

\* lines 1160-1208: read the file, check the header, derive the key,
\* decrypt, extract into a temporary directory
RestoreBegin(i, pass) ==
    /\ pc = "idle"
    /\ nkeys < MaxKeys
    /\ clock < MaxClock
    /\ LET f == archives[i] IN
       IF ReadHeader(f) # ""
       THEN RestoreRefused(i, pass, ReadHeader(f), 1)
       ELSE IF ~CanDerive(pass)
       THEN RestoreRefused(i, pass, WeakMessage, 2)
       ELSE IF ~CanDecryptWithKey(f.encrypted_data, DeriveKey(pass, f.salt))
       THEN RestoreRefused(i, pass, WrongPassphraseMessage, 3)
       ELSE LET zip == DecryptWithKey(f.encrypted_data, DeriveKey(pass, f.salt))
            IN /\ temp' = [exists |-> TRUE, database |-> zip.database,
                           keys |-> zip.keys]
               /\ call' = [op |-> "restore", file |-> i, pass |-> pass,
                           intact |-> f.encrypted_data.intact,
                           pre |-> Live, remaining |-> {},
                           progress |-> Announced(4, 5)]
               /\ pc' = "rs_safety"
               /\ ret' = NoCall
               /\ clock' = clock + 1
    /\ UNCHANGED <<db, keyFiles, keysDir, crypto, hmac, nkeys, tx,
                   archives, safety, tempbackup, other, requests, granted>>

\* lines 1210-1226: step 5 is announced; pre_restore_backup_<timestamp> with
\* the storage file and the directory db_path.parent/"keys", when it exists
RestoreSafetyCopy ==
    /\ pc = "rs_safety"
    /\ call' = [call EXCEPT !.progress = ProgressCallback(@, 5, 5)]
    /\ safety' = [exists |-> TRUE,
                  database |-> [exists |-> TRUE, content |-> db],
                  keys |-> keyFiles["sibling"]]
    /\ pc' = "rs_db"
    /\ UNCHANGED <<db, keyFiles, keysDir, crypto, hmac, nkeys, clock, tx,
                   ret, archives, temp, tempbackup, other, requests, granted>>

\* the key files of the extracted archive
KeyFileNames(dir) ==
    {n \in {"fernet", "hmac"} : dir.exists /\ dir[n] # NoKey}

\* lines 1230-1234: the storage file is overwritten with the extracted one
RestoreReplaceDb ==
    /\ pc = "rs_db"
    /\ IF temp.database.exists
       THEN /\ db' = temp.database.content
            /\ call' = [call EXCEPT !.remaining = KeyFileNames(temp.keys)]
            /\ pc' = "rs_keys"
            /\ UNCHANGED ret
       ELSE /\ ret' = [op |-> "restore", kind |-> "false",
                       message |-> "Database non trovato nel backup",
                       file |-> call.file, pass |-> call.pass, fault |-> FALSE,
                       at |-> pc, intact |-> call.intact, pre |-> call.pre,
                       progress |-> call.progress]
            /\ pc' = "idle"
            /\ call' = NoCall
            /\ UNCHANGED db
    /\ UNCHANGED <<keyFiles, keysDir, crypto, hmac, nkeys, clock, tx, archives,
                   safety, temp, tempbackup, other, requests, granted>>

\* lines 1237-1245: one key file is copied into db_path.parent/"keys"
RestoreCopyKey(n) ==
    /\ pc = "rs_keys"
    /\ n \in call.remaining
    /\ keyFiles' = [keyFiles EXCEPT !["sibling"] =
                       [@ EXCEPT !.exists = TRUE, ![n] = temp.keys[n]]]
    /\ call' = [call EXCEPT !.remaining = @ \ {n}]
    /\ UNCHANGED <<db, keysDir, crypto, hmac, nkeys, clock, pc, tx, ret,
                   archives, safety, temp, tempbackup, other, requests, granted>>

\* line 1248: self.crypto = CryptoManager(db_path.parent/"keys")
RestoreReloadCrypto ==
    /\ pc = "rs_keys"
    /\ call.remaining = {}
    /\ crypto' = CryptoManagerKeys(keyFiles["sibling"], nkeys + 1)
    /\ keyFiles' = [keyFiles EXCEPT !["sibling"] = CryptoManagerFiles(@, nkeys + 1)]
    /\ nkeys' = IF Generates(keyFiles["sibling"]) THEN nkeys + 1 ELSE nkeys
    /\ pc' = "rs_hmac"
    /\ UNCHANGED <<db, keysDir, hmac, clock, call, tx, ret, archives, safety, temp,
                   tempbackup, other, requests, granted>>

\* lines 1249-1254: self.hmac = HMACManager(...), remove the temporary
\* directory, return success
RestoreReloadHmac ==
    /\ pc = "rs_hmac"
    /\ hmac' = HMACManagerKey(keyFiles["sibling"], nkeys + 1)
    /\ keyFiles' = [keyFiles EXCEPT !["sibling"] = HMACManagerFiles(@, nkeys + 1)]
    /\ temp' = NoDir
    /\ pc' = "idle"
    /\ ret' = [op |-> "restore", kind |-> "true", message |-> "",
               file |-> call.file, pass |-> call.pass, fault |-> FALSE,
               at |-> "done", intact |-> call.intact, pre |-> call.pre,
               progress |-> call.progress]
    /\ call' = NoCall
    /\ UNCHANGED <<db, keysDir, crypto, nkeys, clock, tx, archives, safety,
                   tempbackup, other, requests, granted>>

\* lines 1256-1265: what the rollback copies back from the safety copy
RolledBackDb(d, s) ==
    IF s.exists /\ s.database.exists THEN s.database.content ELSE d
RolledBackKeys(k, s) ==
    IF s.exists /\ s.keys.exists THEN [k EXCEPT !["sibling"] = s.keys] ELSE k

\* a copy or a key-holder construction inside the inner try raises
\* (OSError): rollback, then (false, message)
RestoreFails ==
    /\ pc \in {"rs_db", "rs_keys", "rs_hmac"}
    /\ db' = RolledBackDb(db, safety)
    /\ keyFiles' = RolledBackKeys(keyFiles, safety)
    /\ pc' = "idle"
    /\ ret' = [op |-> "restore", kind |-> "false",
               message |-> "Errore durante il ripristino (rollback eseguito)",
               file |-> call.file, pass |-> call.pass, fault |-> TRUE,
               at |-> pc, intact |-> call.intact, pre |-> call.pre,
               progress |-> call.progress]
    /\ call' = NoCall
    /\ UNCHANGED <<keysDir, crypto, hmac, nkeys, clock, tx, archives, safety, temp,
                   tempbackup, other, requests, granted>>

\* the safety copy itself raises: outer handler, lines 1273-1277
RestoreSafetyFails ==
    /\ pc = "rs_safety"
    /\ temp' = NoDir
    /\ pc' = "idle"
    /\ ret' = [op |-> "restore", kind |-> "false",
               message |-> "Errore durante il ripristino",
               file |-> call.file, pass |-> call.pass, fault |-> TRUE,
               at |-> pc, intact |-> call.intact, pre |-> call.pre,
               progress |-> ProgressCallback(call.progress, 5, 5)]
    /\ call' = NoCall
    /\ UNCHANGED <<db, keyFiles, keysDir, crypto, hmac, nkeys, clock, tx,
                   archives, safety, tempbackup, other, requests, granted>>

Restore ==
    \/ \E i \in 1..Len(archives), pass \in Passphrases : RestoreBegin(i, pass)
    \/ RestoreSafetyCopy
    \/ RestoreSafetyFails
    \/ RestoreReplaceDb
    \/ \E n \in {"fernet", "hmac"} : RestoreCopyKey(n)
    \/ RestoreReloadCrypto
    \/ RestoreReloadHmac
    \/ RestoreFails

\* insertions, backups, other installs and restores
NextBackup ==
    \/ \E in \in Inputs : AddInsert(in)
    \/ AddSign
    \/ AddAudit
    \/ StepRaises
    \/ \E pass \in Passphrases : PerformSecureBackup(pass)
    \/ \E i \in 1..Len(archives) : CorruptArchive(i)
    \/ \E dir \in KeyDirs : NewInstall(dir)
    \/ Restore

SpecBackup == Init /\ [][NextBackup]_vars

\* ------------------------------------ key export, key import, other files
KeyExportVersion == 2

\* KeyExportDialog.export_keys: the key files of the key directory, zipped
\* under keys/, encrypted under the password, behind magic and version 2
ExportKeys(pass) ==
    /\ pc = "idle"
    /\ Len(archives) < MaxArchives
    /\ IF pass.len < MinPassphraseLen
       THEN /\ ret' = [op |-> "export_keys", kind |-> "warning"]
            /\ UNCHANGED archives
       ELSE LET salt == Len(archives) + 1
                zip == [database |-> NoFile,
                        keys |-> [exists |-> KeyFileNames(keyFiles["sibling"]) # {},
                                  fernet |-> keyFiles["sibling"].fernet,
                                  hmac |-> keyFiles["sibling"].hmac]]
            IN /\ archives' = Append(archives,
                                [magic |-> BackupMagicHeader,
                                 version |-> KeyExportVersion,
                                 salt |-> salt,
                                 encrypted_data |->
                                     EncryptWithKey(zip, DeriveKey(pass, salt))])
               /\ ret' = [op |-> "export_keys", kind |-> "ok"]
    /\ UNCHANGED <<db, keyFiles, keysDir, crypto, hmac, nkeys, clock, pc, call,
                   tx, safety, temp, tempbackup, other, requests, granted>>

\* files with the suffix .enc that are no archive of this program, or of a
\* version it does not know
ForeignFiles ==
    {[magic |-> "PK", version |-> 20, salt |-> 0,
      encrypted_data |-> [key |-> NoKey, data |-> NoFile, intact |-> FALSE]],
     [magic |-> BackupMagicHeader, version |-> 3, salt |-> 0,
      encrypted_data |-> [key |-> NoKey, data |-> NoFile, intact |-> FALSE]]}

\* the operator puts such a file where the dialogs can select it
PlaceFile(f) ==
    /\ pc = "idle"
    /\ Len(archives) < MaxArchives
    /\ archives' = Append(archives, f)
    /\ ret' = [op |-> "place"]
    /\ UNCHANGED <<db, keyFiles, keysDir, crypto, hmac, nkeys, clock, pc, call,
                   tx, safety, temp, tempbackup, other, requests, granted>>

KeyImportMismatchMessage == "Hai selezionato un backup del database (.enc v1)."

\* KeyImportDialog._import_keys, lines 150-181 and 188-191: the error that
\* refuses the .enc file, "" when its key files are taken
ImportKeysError(f, pass) ==
    IF f.magic # BackupMagicHeader THEN NotOurFormatMessage
    ELSE IF f.version = KeyExportVersion
    THEN IF pass.len < MinPassphraseLen THEN "Password minima: 16 caratteri"
         ELSE IF ~CanDecryptWithKey(f.encrypted_data, DeriveKey(pass, f.salt))
         THEN "InvalidToken"
         ELSE IF ~DecryptWithKey(f.encrypted_data, DeriveKey(pass, f.salt)).keys.exists
         THEN "Archivio non contiene la cartella 'keys/'"
         ELSE ""
    ELSE IF f.version = FullBackupVersion THEN KeyImportMismatchMessage
    ELSE "Formato backup non riconosciuto"

\* KeyImportDialog._import_keys on the .enc file i: on success every key
\* file of the archive is written over the one in get_keys_dir(); the key
\* holders of the running manager are not touched
ImportKeys(i, pass) ==
    /\ pc = "idle"
    /\ LET f == archives[i]
           error == ImportKeysError(f, pass)
       IN IF error # ""
          THEN /\ ret' = [op |-> "import_keys", kind |-> "error", message |-> error,
                          file |-> i, pass |-> pass, pre |-> Live]
               /\ UNCHANGED keyFiles
          ELSE LET keys == DecryptWithKey(f.encrypted_data,
                                         DeriveKey(pass, f.salt)).keys
               IN /\ keyFiles' = [keyFiles EXCEPT !["sibling"] =
                                     [exists |-> TRUE,
                                      fernet |-> IF keys.fernet # NoKey
                                                 THEN keys.fernet ELSE @.fernet,
                                      hmac |-> IF keys.hmac # NoKey
                                               THEN keys.hmac ELSE @.hmac]]
                  /\ ret' = [op |-> "import_keys", kind |-> "ok", message |-> "",
                             file |-> i, pass |-> pass, pre |-> Live]
    /\ UNCHANGED <<db, keysDir, crypto, hmac, nkeys, clock, pc, call, tx,
                   archives, safety, temp, tempbackup, other, requests, granted>>

\* insertions, archives of both kinds and other files, restores and key
\* imports
NextKinds ==
    \/ \E in \in Inputs : AddInsert(in)
    \/ AddSign
    \/ AddAudit
    \/ \E pass \in Passphrases : PerformSecureBackup(pass)
    \/ \E pass \in Passphrases : ExportKeys(pass)
    \/ \E f \in ForeignFiles : PlaceFile(f)
    \/ \E i \in 1..Len(archives), pass \in Passphrases : RestoreBegin(i, pass)
    \/ RestoreSafetyCopy
    \/ RestoreReplaceDb
    \/ \E n \in {"fernet", "hmac"} : RestoreCopyKey(n)
    \/ RestoreReloadCrypto
    \/ RestoreReloadHmac
    \/ \E i \in 1..Len(archives), pass \in Passphrases : ImportKeys(i, pass)

SpecKinds == Init /\ [][NextKinds]_vars

\* ------------------------------- perform_secure_backup, statement by statement
\* Path.unlink() of a temporary file
UnlinkBug(f) == f
Unlink(f) == NoFile

\* the backup file right after open(backup_path, 'wb'): created, nothing written
EmptyBackupFile(made) ==
    [magic |-> "", version |-> 0, salt |-> 0,
     encrypted_data |-> [key |-> NoKey, data |-> NoFile, intact |-> FALSE],
     made |-> made]

\* the step announced last when the statements at pc run
BackupStep(at) ==
    CASE at = "bk_snapshot" -> 2 [] at = "bk_zip" -> 3 [] at = "bk_encrypt" -> 4
      [] at = "bk_open" -> 5 [] at = "bk_write" -> 5 [] at = "bk_cleanup" -> 6

BackupReturns(kind, message, at) ==
    [op |-> "backup", kind |-> kind, message |-> message, at |-> at,
     pre |-> call.pre,
     progress |-> IF kind = "true" THEN ProgressCallback(call.progress, 6, 6)
                  ELSE Announced(BackupStep(at), 6)]

steps == <<db, keyFiles, keysDir, crypto, hmac, nkeys, tx, safety, temp, other,
          requests, granted>>

\* line 1044: derive_key_from_passphrase; line 1050: the timestamp that
\* names the temporary files and the backup file
BackupDerive(pass) ==
    /\ pc = "idle"
    /\ Len(archives) < MaxArchives
    /\ clock < MaxClock
    /\ IF ~CanDerive(pass)
       THEN /\ ret' = [op |-> "backup", kind |-> "false", message |-> WeakMessage,
                       at |-> "derive", pre |-> archives,
                       progress |-> ProgressCallback(<<>>, 1, 6)]
            /\ UNCHANGED <<pc, call, clock>>
       ELSE /\ call' = [op |-> "backup", pass |-> pass,
                        salt |-> Len(archives) + 1,
                        key |-> DeriveKey(pass, Len(archives) + 1),
                        pre |-> archives, made |-> Made(pass),
                        encrypted_data |-> NoFile,
                        progress |-> ProgressCallback(<<>>, 1, 6)]
            /\ pc' = "bk_snapshot"
            /\ ret' = NoCall
            /\ clock' = clock + 1
    /\ tempbackup' = [db |-> NoFile, zip |-> NoFile]
    /\ UNCHANGED <<archives, steps>>

\* lines 1053-1055: VACUUM INTO temp_backup_<timestamp>.db
BackupSnapshot ==
    /\ pc = "bk_snapshot"
    /\ tempbackup' = [tempbackup EXCEPT !.db = [exists |-> TRUE, content |-> db]]
    /\ call' = [call EXCEPT !.made = Made(call.pass),
                            !.progress = ProgressCallback(@, 2, 6)]
    /\ pc' = "bk_zip"
    /\ UNCHANGED <<clock, ret, archives, steps>>

\* lines 1061-1075: temp_backup_<timestamp>.zip
BackupZip ==
    /\ pc = "bk_zip"
    /\ tempbackup' = [tempbackup EXCEPT !.zip =
                         [exists |-> TRUE,
                          content |-> PackageArchive(tempbackup.db.content,
                                                     keyFiles["sibling"])]]
    /\ call' = [call EXCEPT !.progress = ProgressCallback(@, 3, 6)]
    /\ pc' = "bk_encrypt"
    /\ UNCHANGED <<clock, ret, archives, steps>>

\* lines 1081-1084
BackupEncrypt ==
    /\ pc = "bk_encrypt"
    /\ call' = [call EXCEPT !.encrypted_data =
                   EncryptWithKey(tempbackup.zip.content, call.key),
                            !.progress = ProgressCallback(@, 4, 6)]
    /\ pc' = "bk_open"
    /\ UNCHANGED <<clock, ret, archives, tempbackup, steps>>

\* lines 1090-1097: mkdir, open(backup_path, 'wb') creates the file
BackupOpen ==
    /\ pc = "bk_open"
    /\ archives' = Append(archives, EmptyBackupFile(call.made))
    /\ call' = [call EXCEPT !.progress = ProgressCallback(@, 5, 6)]
    /\ pc' = "bk_write"
    /\ UNCHANGED <<clock, ret, tempbackup, steps>>

\* lines 1099-1102: header and ciphertext are written, the file is closed
BackupWrite ==
    /\ pc = "bk_write"
    /\ archives' = [archives EXCEPT ![Len(archives)] =
                       [magic |-> BackupMagicHeader,
                        version |-> FullBackupVersion,
                        salt |-> call.salt,
                        encrypted_data |-> call.encrypted_data,
                        made |-> call.made]]
    /\ pc' = "bk_cleanup"
    /\ UNCHANGED <<clock, call, ret, tempbackup, steps>>

\* lines 1108-1113
BackupCleanup ==
    /\ pc = "bk_cleanup"
    /\ tempbackup' = [db |-> Unlink(tempbackup.db), zip |-> Unlink(tempbackup.zip)]
    /\ ret' = BackupReturns("true", "", pc)
    /\ pc' = "idle"
    /\ call' = NoCall
    /\ UNCHANGED <<clock, archives, steps>>

BackupSteps ==
    {"bk_snapshot", "bk_zip", "bk_encrypt", "bk_open", "bk_write", "bk_cleanup"}

\* a statement of the try block raises (sqlite3.Error, OSError, an exception
\* of the progress callback): except Exception, lines 1123-1129
BackupFails ==
    /\ pc \in BackupSteps
    /\ tempbackup' = [db |-> Unlink(tempbackup.db), zip |-> Unlink(tempbackup.zip)]
    /\ ret' = BackupReturns("false", "Errore durante il backup", pc)
    /\ pc' = "idle"
    /\ call' = NoCall
    /\ UNCHANGED <<clock, archives, steps>>

\* unlink() itself raises inside the handler: the exception leaves the method
BackupCleanupRaises ==
    /\ pc \in BackupSteps
    /\ tempbackup.db.exists \/ tempbackup.zip.exists
    /\ ret' = BackupReturns("raised", "", pc)
    /\ pc' = "idle"
    /\ call' = NoCall
    /\ UNCHANGED <<clock, archives, tempbackup, steps>>

\* insertions and backups that can fail at every statement
NextBackupFaults ==
    \/ \E in \in Inputs : AddInsert(in)
    \/ AddSign
    \/ AddAudit
    \/ \E pass \in Passphrases : BackupDerive(pass)
    \/ BackupSnapshot
    \/ BackupZip
    \/ BackupEncrypt
    \/ BackupOpen
    \/ BackupWrite
    \/ BackupCleanup
    \/ BackupFails
    \/ BackupCleanupRaises

SpecBackupFaults == Init /\ [][NextBackupFaults]_vars

\* backups and restores, statement by statement, with their failures
NextProgress ==
    \/ \E in \in Inputs : AddInsert(in)
    \/ AddSign
    \/ AddAudit
    \/ \E pass \in Passphrases : BackupDerive(pass)
    \/ BackupSnapshot
    \/ BackupZip
    \/ BackupEncrypt
    \/ BackupOpen
    \/ BackupWrite
    \/ BackupCleanup
    \/ BackupFails
    \/ Restore

SpecProgress == Init /\ [][NextProgress]_vars

\* ---------------------------------------------------------------- claims
\* C1 as stated: after add_subscription returned p, get_subscription(p)
\* gives back every supplied value, payment_method included.
C1_RoundTripAsSupplied ==
    (ret.op = "add" /\ ret.kind = "ok") =>
        LET g == GetSubscription(db, crypto.fernet, ret.protocol_id)
            a == ret.args
        IN /\ g.kind = "subscription"
           /\ g.owner_name = a.owner_name
           /\ g.license_plate = a.license_plate
           /\ g.email = a.email
           /\ g.address = a.address
           /\ g.mobile = a.mobile
           /\ g.subscription_start = a.subscription_start
           /\ g.subscription_end = a.subscription_end
           /\ g.payment_details = a.payment_details
           /\ g.payment_method = a.payment_method

\* the payment method as add_subscription stores it: blanks at both ends
\* removed, letters in upper case
Normalised(s) ==
    LET first == CHOOSE i \in 1..(Len(s) + 1) :
                     /\ i = Len(s) + 1 \/ s[i] # " "
                     /\ \A j \in 1..(i - 1) : s[j] = " "
        last == CHOOSE i \in 0..Len(s) :
                     /\ i = 0 \/ s[i] # " "
                     /\ \A j \in (i + 1)..Len(s) : s[j] = " "
    IN [i \in 1..(IF last >= first THEN last - first + 1 ELSE 0) |->
            Upper(s[first + i - 1])]

\* C1 amended: after add_subscription returned p, get_subscription(p) gives
\* back the supplied owner_name, license_plate, email, address, mobile,
\* subscription_start, subscription_end and payment_details, and the
\* supplied payment_method stripped of surrounding blanks and upper-cased.
C1_RoundTripNormalised ==
    (ret.op = "add" /\ ret.kind = "ok") =>
        LET g == GetSubscription(db, crypto.fernet, ret.protocol_id)
            a == ret.args
        IN /\ g.kind = "subscription"
           /\ g.owner_name = a.owner_name
           /\ g.license_plate = a.license_plate
           /\ g.email = a.email
           /\ g.address = a.address
           /\ g.mobile = a.mobile
           /\ g.subscription_start = a.subscription_start
           /\ g.subscription_end = a.subscription_end
           /\ g.payment_details = a.payment_details
           /\ g.payment_method = Normalised(a.payment_method)

\* add_subscription returned for an input whose payment method is not in
\* normal form, and the record reads back
C1_Witness ==
    /\ ret.op = "add" /\ ret.kind = "ok"
    /\ ret.args.payment_method # Normalised(ret.args.payment_method)
    /\ ret.args.email = ""
    /\ GetSubscription(db, crypto.fernet, ret.protocol_id).kind = "subscription"

\* C2 as stated: whenever the manager is between two calls, whatever calls
\* came before and however they ended, verify_data_integrity returns
\* all_valid = true and no issue.
C2_VerifyAlwaysValid ==
    pc = "idle" =>
        VerifyDataIntegrity(db, hmac) =
            [kind |-> "result", all_valid |-> TRUE, issues |-> {}]

\* C3 as stated: right after an intact record was modified out-of-band,
\* verify_data_integrity returns all_valid = false with an issue that
\* names the record.
C3_TamperDetected ==
    ret.op = "tamper" =>
        LET v == VerifyDataIntegrity(db, hmac)
        IN /\ v.kind = "result"
           /\ ~v.all_valid
           /\ \E i \in v.issues : i.protocol_id = ret.protocol_id

\* C4 as stated: in every committed state every stored row has its
\* data_integrity row, and the signature verifies against the row.
C4_EveryRowSigned ==
    \A p \in DOMAIN db.subs : Intact(db, hmac, p)

\* C5: a bulk import that failed returned (false, message) and left the
\* three tables as they were when it was called.
C5_BulkAllOrNothing ==
    (ret.op = "bulk" /\ ret.kind = "false") => db = ret.before

\* a bulk import of several rows failed after its last row was inserted,
\* over a storage that already held a record
C5_Witness ==
    /\ ret.op = "bulk" /\ ret.kind = "false"
    /\ ret.total >= 2
    /\ ret.failed_at = ret.total
    /\ DOMAIN db.subs # {}

\* C6 as stated: a restore of an intact backup file with the passphrase it
\* was made with, not hit by an I/O failure, succeeds, and afterwards
\* get_all_subscriptions and verify_data_integrity return what they
\* returned in the registry the backup was made of.
C6_BackupRestoreRoundTrip ==
    (/\ ret.op = "restore"
     /\ ret.pass.id = archives[ret.file].made.pass
     /\ ret.intact
     /\ ~ret.fault) =>
        /\ ret.kind = "true"
        /\ GetAllSubscriptions(db, crypto.fernet) = archives[ret.file].made.records
        /\ VerifyDataIntegrity(db, hmac) = archives[ret.file].made.verify

\* C7 as stated: a restore with another passphrase than the one the file
\* was made with, or of a file with corrupted ciphertext, returns false
\* with the wrong-passphrase-or-corrupted message and changes neither the
\* storage file, the key files, the keys in memory nor the safety copies.
C7_WrongPassphraseRefused ==
    (/\ ret.op = "restore"
     /\ (ret.pass.id # archives[ret.file].made.pass \/ ~ret.intact)) =>
        /\ ret.kind = "false"
        /\ ret.message = WrongPassphraseMessage
        /\ Live = ret.pre

\* C7 amended: the same for a passphrase of at least 16 characters.
C7_WrongLongPassphraseRefused ==
    (/\ ret.op = "restore"
     /\ ret.pass.len >= MinPassphraseLen
     /\ (ret.pass.id # archives[ret.file].made.pass \/ ~ret.intact)) =>
        /\ ret.kind = "false"
        /\ ret.message = WrongPassphraseMessage
        /\ Live = ret.pre

\* a restore over a registry that holds a record was refused for a wrong
\* passphrase of sufficient length
C7_Witness ==
    /\ ret.op = "restore"
    /\ ret.kind = "false"
    /\ ret.pass.len >= MinPassphraseLen
    /\ ret.pass.id # archives[ret.file].made.pass
    /\ ret.intact
    /\ DOMAIN db.subs # {}

\* C8 as stated: a restore that failed after the storage file was replaced
\* returns with the storage file, the live key files and the keys in
\* memory as they were before the call.
C8_FailedRestoreRolledBack ==
    (/\ ret.op = "restore"
     /\ ret.kind = "false"
     /\ ret.at \in {"rs_keys", "rs_hmac"}) =>
        /\ db = ret.pre.db
        /\ keyFiles[keysDir] = ret.pre.keyFiles[keysDir]
        /\ crypto = ret.pre.crypto
        /\ hmac = ret.pre.hmac

\* C9 as stated: after a successful restore the storage file is the
\* snapshot of the archive, and the live key files and the keys in memory
\* are the keys that were live when the archive was made.
C9_RestoredStateIsArchive ==
    (ret.op = "restore" /\ ret.kind = "true") =>
        LET f == archives[ret.file] IN
        /\ db = f.encrypted_data.data.database.content
        /\ keyFiles[keysDir].fernet = f.made.keys.fernet
        /\ keyFiles[keysDir].hmac = f.made.keys.hmac
        /\ crypto.fernet = f.made.keys.fernet
        /\ crypto.hmac = f.made.keys.hmac
        /\ hmac = f.made.keys.hmac

\* C10 as stated: a step of restore changes the storage file or a live key
\* file only when the archive is extracted and the safety copy holds the
\* storage file and the live key files as they were before the call.
C10_SafetyCopyFirst ==
    [][(/\ call.op = "restore"
        /\ (db' # db \/ keyFiles'[keysDir] # keyFiles[keysDir])) =>
            /\ temp.exists
            /\ safety.exists
            /\ safety.database.content = call.pre.db
            /\ safety.keys = call.pre.keyFiles[keysDir]]_vars

\* C11 as stated: after a perform_secure_backup that did not succeed, the
\* output directory holds no file that was not there before the call.
C11_NoPartialBackupFile ==
    (ret.op = "backup" /\ ret.kind # "true") => archives = ret.pre

\* C12: when perform_secure_backup has returned, with success or with
\* (false, message), neither temp_backup_<timestamp>.db nor
\* temp_backup_<timestamp>.zip exists.
C12_TemporariesRemoved ==
    (ret.op = "backup" /\ ret.kind \in {"true", "false"}) =>
        /\ ~tempbackup.db.exists
        /\ ~tempbackup.zip.exists

\* a backup failed after the snapshot and the package had been created
C12_Witness ==
    /\ ret.op = "backup"
    /\ ret.kind = "false"
    /\ ret.at \in {"bk_encrypt", "bk_open", "bk_write"}
    /\ DOMAIN db.subs # {}

\* the sequence number the claim gives: one more than the numerically
\* highest sequence number among the stored ids of this year in both formats
ExpectedSequence(subs) ==
    LET S == {IntOf(p.digits) : p \in
                 {q \in DOMAIN subs :
                     \/ q.fmt = "NEW" /\ q.year = ThisYear
                     \/ q.fmt = "OLD" /\ q.year = ThisYear % 100}}
    IN  IF S = {} THEN 1 ELSE 1 + CHOOSE n \in S : \A m \in S : m <= n

IsCurrentId(p, n) ==
    /\ p.fmt = "NEW"
    /\ p.year = ThisYear
    /\ Len(p.digits) = 10
    /\ IntOf(p.digits) = n

\* C13: add_subscription inserts the row under the id YYYY-NNNNNNNNNN whose
\* sequence number is one more than the numerically highest stored sequence
\* number of the year in both formats (1 when there is none); the i-th row
\* of a bulk import gets that number plus i - 1.
C13_NextSequence ==
    [][/\ (pc = "idle" /\ pc' = "add_sign") =>
             /\ IsCurrentId(call'.protocol_id, ExpectedSequence(db.subs))
             /\ DOMAIN db'.subs = DOMAIN db.subs \cup {call'.protocol_id}
       /\ (pc = "bulk" /\ pc' = "bulk") =>
             \E p \in DOMAIN tx'.d.subs :
                /\ DOMAIN tx'.d.subs = DOMAIN tx.d.subs \cup {p}
                /\ p \notin DOMAIN tx.d.subs
                /\ IsCurrentId(p, ExpectedSequence(call.before.subs) + call.idx)
      ]_vars

\* an id was allocated over a table that holds ids of both formats of the
\* year, the legacy one with the higher sequence number
C13_Witness ==
    /\ pc = "add_sign"
    /\ \E p \in DOMAIN db.subs : p.fmt = "OLD" /\ IntOf(p.digits) = 7
    /\ \E p \in DOMAIN db.subs : p.fmt = "NEW" /\ IntOf(p.digits) = 5
    /\ IntOf(call.protocol_id.digits) = 8

\* C14 as stated: the INSERT entries of the audit log, in the order they
\* were appended, carry strictly increasing sequence numbers, so no
\* protocol id is issued twice.
C14_NeverReissued ==
    \A i, j \in DOMAIN db.audit :
        (/\ i < j
         /\ db.audit[i].operation_type = "INSERT"
         /\ db.audit[j].operation_type = "INSERT") =>
            IntOf(db.audit[i].protocol_id.digits) < IntOf(db.audit[j].protocol_id.digits)

\* the entry appended last
LastAudit(d) == d.audit[Len(d.audit)]

AppendedOne(operation_type, p) ==
    /\ Len(db'.audit) = Len(db.audit) + 1
    /\ SubSeq(db'.audit, 1, Len(db.audit)) = db.audit
    /\ LastAudit(db').operation_type = operation_type
    /\ LastAudit(db').protocol_id = p

\* C15: the step in which add_subscription, update_subscription or
\* delete_subscription returns success appends exactly one audit entry for
\* the affected protocol id, INSERT with before_data null, UPDATE with both
\* snapshots, DELETE with after_data null; the commit of a bulk import of N
\* rows appends N INSERT entries, one per allocated id; no other step
\* changes the audit log.
C15_OneAuditEntryPerMutation ==
    [][/\ (pc = "add_audit" /\ ret'.kind = "ok") =>
             /\ AppendedOne("INSERT", ret'.protocol_id)
             /\ LastAudit(db').before_data = NullData
             /\ LastAudit(db').after_data # NullData
       /\ (pc = "upd_audit" /\ ret'.kind = "true") =>
             /\ AppendedOne("UPDATE", ret'.protocol_id)
             /\ LastAudit(db').before_data # NullData
             /\ LastAudit(db').after_data # NullData
       /\ (pc = "del_audit" /\ ret'.kind = "true") =>
             /\ AppendedOne("DELETE", ret'.protocol_id)
             /\ LastAudit(db').before_data # NullData
             /\ LastAudit(db').after_data = NullData
       /\ (pc = "bulk" /\ ret'.op = "bulk" /\ ret'.kind = "true") =>
             LET n == Len(db.audit)
                 added == DOMAIN db'.subs \ DOMAIN db.subs
             IN /\ Len(db'.audit) = n + ret'.total
                /\ SubSeq(db'.audit, 1, n) = db.audit
                /\ Cardinality(added) = ret'.total
                /\ {db'.audit[i].protocol_id : i \in (n + 1)..Len(db'.audit)} = added
                /\ \A i \in (n + 1)..Len(db'.audit) :
                      /\ db'.audit[i].operation_type = "INSERT"
                      /\ db'.audit[i].before_data = NullData
                      /\ db'.audit[i].after_data # NullData
       /\ db'.audit # db.audit =>
             \/ pc \in {"add_audit", "upd_audit", "del_audit"} /\ ret'.kind \in {"ok", "true"}
             \/ pc = "bulk" /\ ret'.op = "bulk" /\ ret'.kind = "true"
      ]_vars

\* update_subscription returned true for a record that a bulk import stored
C15_Witness ==
    /\ ret.op = "update"
    /\ ret.kind = "true"
    /\ Len(db.audit) >= 3
    /\ LastAudit(db).operation_type = "UPDATE"

\* the protocol id of the delete_subscription that is running or ended last
Deleting ==
    IF pc = "del_audit" THEN {call.protocol_id}
    ELSE IF ret.op = "delete" /\ ret.kind \in {"true", "raised"}
         THEN {ret.protocol_id}
         ELSE {}

\* C16 as stated: in every committed state, when delete_subscription has
\* removed the row, the signature is removed too and the DELETE audit
\* entry with the pre-delete snapshot is there.
C16_DeleteAtomicWithAudit ==
    \A p \in Deleting :
        p \notin DOMAIN db.subs =>
            /\ p \notin DOMAIN db.sigs
            /\ db.audit # <<>>
            /\ LastAudit(db).operation_type = "DELETE"
            /\ LastAudit(db).protocol_id = p
            /\ LastAudit(db).before_data # NullData

\* the mutation of call c is in the committed storage
Committed(c) ==
    CASE c.op = "add" ->
            /\ c.protocol_id \in DOMAIN db.subs
            /\ db.subs[c.protocol_id].updated_at = Isoformat(c.now)
      [] c.op = "update" ->
            /\ c.protocol_id \in DOMAIN db.subs
            /\ db.subs[c.protocol_id].updated_at = Isoformat(c.now)
      [] c.op = "delete" -> c.protocol_id \notin DOMAIN db.subs

\* C17: the audit append of add, update and delete is reached only with the
\* mutation committed; when it fails the mutation stays committed and the
\* call does not return its success result; a success result implies that
\* the audit entry of the call is the last one of the log.
C17_AuditAfterCommitAndReported ==
    /\ pc \in {"add_audit", "upd_audit", "del_audit"} => Committed(call)
    /\ (/\ ret.op \in {"add", "update", "delete"}
        /\ ret.kind = "raised"
        /\ ret.at \in {"add_audit", "upd_audit", "del_audit"}) => Committed(ret.call)
    /\ (ret.op \in {"add", "update", "delete"} /\ ret.kind \in {"ok", "true"}) =>
          /\ db.audit # <<>>
          /\ LastAudit(db).protocol_id = ret.protocol_id
          /\ LastAudit(db).operation_type =
                (CASE ret.op = "add" -> "INSERT"
                   [] ret.op = "update" -> "UPDATE"
                   [] ret.op = "delete" -> "DELETE")

\* the audit append of update_subscription raised after the UPDATE was
\* committed and signed
C17_Witness ==
    /\ ret.op = "update"
    /\ ret.kind = "raised"
    /\ ret.at = "upd_audit"
    /\ ret.protocol_id \in DOMAIN db.subs
    /\ \A i \in DOMAIN db.audit : db.audit[i].operation_type # "UPDATE"

\* the non-null snapshots of the audit log
Snapshots ==
    ({db.audit[i].before_data : i \in DOMAIN db.audit}
     \cup {db.audit[i].after_data : i \in DOMAIN db.audit}) \ {NullData}

SensitiveKeys == {"email", "address", "mobile", "payment_details"}

\* C18 as stated: every non-null snapshot of the audit log has the
\* plaintext email, address, mobile and payment amount of the record.
C18_SnapshotsArePlaintext ==
    \A snapshot \in Snapshots : SensitiveKeys \subseteq DOMAIN snapshot

\* C19 as stated: no table holds the plaintext of an email, address, mobile
\* number or payment amount: the columns of subscriptions are Fernet
\* tokens and no snapshot of audit_log carries a plaintext value.
C19_NoPlaintextPersisted ==
    /\ \A p \in DOMAIN db.subs :
          \A column \in {"email_encrypted", "address_encrypted",
                         "mobile_encrypted", "payment_details_encrypted"} :
             db.subs[p][column].k # NoKey
    /\ \A snapshot \in Snapshots : SensitiveKeys \cap DOMAIN snapshot = {}

\* C20: a step of add, update, delete, bulk import or verification keeps
\* every committed audit entry as it is, and the entries it appends get
\* ids greater than every id of the log and increasing among themselves.
C20_AuditImmutableMonotonic ==
    [][/\ Len(db'.audit) >= Len(db.audit)
       /\ SubSeq(db'.audit, 1, Len(db.audit)) = db.audit
       /\ \A j \in (Len(db.audit) + 1)..Len(db'.audit) :
             \A i \in 1..(j - 1) : db'.audit[i].id < db'.audit[j].id
      ]_vars

\* a bulk import was rolled back and a later deletion appended its entry
\* to a log of several entries
C20_Witness ==
    /\ ret.op = "delete"
    /\ ret.kind = "true"
    /\ Len(db.audit) >= 3
    /\ LastAudit(db).id = Len(db.audit)

\* C21 as stated: a call of add, update, delete or bulk add during which
\* the user name, the host name or the IP address could not be obtained has
\* carried out its mutation and written its audit entry.
C21_MetadataNeverBlocks ==
    (\/ /\ ret.op \in {"add", "update", "delete"}
        /\ ret.kind = "raised"
        /\ ret.at = "user_info"
     \/ /\ ret.op = "bulk"
        /\ ret.kind = "false"
        /\ ret.cause = "user_info") =>
        /\ db.subs # ret.before.subs
        /\ Len(db.audit) > Len(ret.before.audit)

\* C22: update_subscription and delete_subscription that returned false
\* for a protocol id left the three tables as they were, and
\* get_subscription of that id returns null.
C22_MissingIdRefused ==
    (ret.op \in {"update", "delete"} /\ ret.kind = "false") =>
        /\ db = ret.before
        /\ GetSubscription(db, crypto.fernet, ret.protocol_id).kind = "null"

\* delete_subscription returned false for an id that is not stored while
\* other records are stored
C22_Witness ==
    /\ ret.op = "delete"
    /\ ret.kind = "false"
    /\ ret.protocol_id \notin DOMAIN db.subs
    /\ DOMAIN db.subs # {}
    /\ db.audit # <<>>

\* C23 as stated: for every content of the storage verify_data_integrity
\* returns normally, with one issue for each row that is not intact, none
\* for an intact row, and all_valid exactly when there is no issue.
C23_VerifyTotal ==
    LET v == VerifyDataIntegrity(db, hmac)
    IN /\ v.kind = "result"
       /\ {i.protocol_id : i \in v.issues} =
              {p \in DOMAIN db.subs : ~Intact(db, hmac, p)}
       /\ Cardinality(v.issues) = Cardinality({i.protocol_id : i \in v.issues})
       /\ v.all_valid <=> v.issues = {}

\* C24: restore_secure_backup of a file that does not start with the magic
\* constant returns false with the not-our-format message, whatever the
\* passphrase (no key derivation came first); of a file with the magic
\* constant and an unknown version byte it returns false with the
\* unsupported-version message; storage file, key files and keys in memory
\* are as before the call.
C24_HeaderChecked ==
    ret.op = "restore" =>
        LET f == archives[ret.file] IN
        /\ f.magic # BackupMagicHeader =>
              /\ ret.kind = "false"
              /\ ret.message = NotOurFormatMessage
              /\ Live = ret.pre
        /\ (/\ f.magic = BackupMagicHeader
            /\ f.version \notin {FullBackupVersion, KeyExportVersion}) =>
              /\ ret.kind = "false"
              /\ ret.message = UnsupportedVersionMessage
              /\ Live = ret.pre

\* a restore of a file that is no archive of the program was refused for a
\* passphrase that is too short to derive a key from, over a registry with
\* a record
C24_Witness ==
    /\ ret.op = "restore"
    /\ archives[ret.file].magic # BackupMagicHeader
    /\ ret.pass = PassShort
    /\ ret.message = NotOurFormatMessage
    /\ DOMAIN db.subs # {}

\* the messages of the program that say which kind of archive the file is
MismatchMessages == {KeyImportMismatchMessage}

\* C25 as stated: the full restore of a key export and the key import of a
\* full backup are refused with a message that names the mismatch, with
\* storage file, key files and keys in memory as before the call.
C25_OtherKindRefused ==
    /\ (ret.op = "restore"
        /\ archives[ret.file].magic = BackupMagicHeader
        /\ archives[ret.file].version = KeyExportVersion) =>
          /\ ret.kind = "false"
          /\ ret.message \in MismatchMessages
          /\ Live = ret.pre
    /\ (ret.op = "import_keys"
        /\ archives[ret.file].magic = BackupMagicHeader
        /\ archives[ret.file].version = FullBackupVersion) =>
          /\ ret.kind = "error"
          /\ ret.message \in MismatchMessages
          /\ Live = ret.pre

\* C26: the step of a perform_secure_backup or restore_secure_backup call
\* with a passphrase shorter than 16 characters returns false and changes
\* neither the storage file, the key files, the keys in memory, the backup
\* files, the safety copy nor any temporary file or directory.
C26_WeakPassphraseNoEffect ==
    [][(/\ ret'.op \in {"backup", "restore"}
        /\ ret' # ret
        /\ ret'.pass.len < MinPassphraseLen) =>
            /\ ret'.kind = "false"
            /\ UNCHANGED <<db, keyFiles, crypto, hmac, archives, safety, temp,
                           tempbackup, other, requests, granted>>
      ]_vars

\* a restore of an intact full backup was refused for a short passphrase,
\* over a registry with a record
C26_Witness ==
    /\ ret.op = "restore"
    /\ ret.pass = PassShort
    /\ ret.message = WeakMessage
    /\ archives[ret.file].encrypted_data.intact
    /\ DOMAIN db.subs # {}

\* C27: what a reader on its own connection finds while a bulk import of N
\* rows runs, or after it returned, is either the content before the import
\* or that content with N more rows, N more signatures and N more audit
\* entries; never a part of the batch.
C27_ReadersSeeNoneOrAll ==
    ret.op = "reader" =>
        \/ ret.seen = ret.before
        \/ /\ Cardinality(DOMAIN ret.seen.subs \ DOMAIN ret.before.subs) = ret.total
           /\ Cardinality(DOMAIN ret.seen.sigs \ DOMAIN ret.before.sigs) = ret.total
           /\ Len(ret.seen.audit) = Len(ret.before.audit) + ret.total
           /\ \A p \in DOMAIN ret.before.subs :
                 p \in DOMAIN ret.seen.subs /\ ret.seen.subs[p] = ret.before.subs[p]

\* a reader ran while the transaction of a bulk import held a part of the
\* batch, over a storage that already held a record
C27_Witness ==
    /\ ret.op = "reader"
    /\ ret.during
    /\ ret.idx >= 1 /\ ret.idx < ret.total
    /\ DOMAIN ret.before.subs # {}

\* the key file n of a key directory
KeyFile(dir, n) == IF n = "fernet" THEN dir.fernet ELSE dir.hmac

\* the property of C28 for the construction c, under way or returned
KeysAsInFiles(c) ==
    \A i \in 1..Len(c.held) :
        LET n == KeySteps(c.class)[i] IN
        \* generated only when the file did not exist
        /\ c.generated[i] <=>
              /\ KeyFile(c.pre, n) = NoKey
              /\ \A j \in 1..(i - 1) : KeySteps(c.class)[j] # n
        \* an existing file is not overwritten
        /\ KeyFile(c.pre, n) # NoKey =>
              KeyFile(keyFiles[c.dir], n) = KeyFile(c.pre, n)
        \* the key held is the key in the file, already when the call that
        \* loaded or generated it has returned
        /\ c.held[i] = KeyFile(keyFiles[c.dir], n)
        /\ c.held[i] # NoKey

\* C28: in every construction of CryptoManager, HMACManager or
\* DatabaseManager over a key directory, a key is generated only when its
\* key file does not exist, the key file holds it as soon as it is
\* generated, an existing key file keeps its content, and the instance
\* holds the keys that are in the files.
C28_KeysLoadedOrGeneratedOnce ==
    /\ pc = "construct" => KeysAsInFiles(call)
    /\ ret.op = "construct" => KeysAsInFiles(ret)

\* a DatabaseManager was constructed over a directory that had the Fernet
\* key file and not the HMAC key file: one key loaded, one generated, and
\* the HMACManager loaded the one just generated
C28_Witness ==
    /\ ret.op = "construct"
    /\ ret.class = "DatabaseManager"
    /\ ret.generated = <<FALSE, TRUE, FALSE>>

\* the k-th of the entries M of the log, counted from the one written last
NewestOf(M, k) == CHOOSE m \in M : Cardinality({x \in M : x > m}) = k - 1

\* C29: get_audit_log_entries(operation_type, limit) returns at most limit
\* entries, all of the requested operation type when one is given, and they
\* are the entries of that type written last, the last written first.
C29_NewestFirst ==
    ret.op = "audit_query" =>
        LET M == Matching(ret.log, ret.operation_type)
            n == IF Cardinality(M) < ret.limit THEN Cardinality(M) ELSE ret.limit
        IN /\ Len(ret.entries) <= ret.limit
           /\ \A k \in DOMAIN ret.entries :
                 ret.operation_type # NullText =>
                     ret.entries[k].operation_type = ret.operation_type
           /\ Len(ret.entries) = n
           /\ \A k \in 1..n : ret.entries[k] = ret.log[NewestOf(M, k)]

\* q is a substring of text, letters compared without regard to case
SubstringOf(q, text) ==
    \E i \in 0..(Len(text) - Len(q)) :
        \A k \in 1..Len(q) : Fold(q[k]) = Fold(text[i + k])

\* C30: search_subscriptions(q) returns the stored records of which the
\* protocol id, the owner name or the plate contains q as a substring,
\* case-insensitively, and no other record, each decrypted; also for q with
\* the characters '%' and '_'.
C30_SearchIsSubstringMatch ==
    ret.op = "search" =>
        /\ ret.result.kind = "list"
        /\ DOMAIN ret.result.subs =
              {p \in DOMAIN db.subs :
                  \/ SubstringOf(ret.query, PidText(p))
                  \/ SubstringOf(ret.query, Chars(db.subs[p].owner_name))
                  \/ SubstringOf(ret.query, Chars(db.subs[p].license_plate))}
        /\ \A p \in DOMAIN ret.result.subs :
              /\ ret.result.subs[p].kind = "subscription"
              /\ ret.result.subs[p].email = Decrypt(crypto.fernet, db.subs[p].email_encrypted)

C32_UnrecognisedUnchanged ==
    ret.op \in {"normalize", "normalized_again"} =>
        /\ ret.word \in CardWords => ret.normalized = POS
        /\ ret.word \in BolWords => ret.normalized = BOLLETTINO
        /\ ret.word \in OtherWords => ret.normalized = ret.method
        /\ ret.op = "normalized_again" => ret.normalized = ret.method

\* C32: card words give POS, words starting with BOL give BOLLETTINO, in any
\* letter case and with blanks around them; every other method string is
\* returned without the blanks around it and in upper case; normalising
\* twice gives what normalising once gives.
C32_NormalisedLabels ==
    ret.op \in {"normalize", "normalized_again"} =>
        /\ ret.word \in CardWords => ret.normalized = POS
        /\ ret.word \in BolWords => ret.normalized = BOLLETTINO
        /\ ret.word \in OtherWords => ret.normalized = Cased(ret.word, "upper")
        /\ ret.op = "normalized_again" => ret.normalized = ret.method

\* the capitalised word "Carte" with a blank after it was normalised twice
C32_Witness ==
    /\ ret.op = "normalized_again"
    /\ ret.word = <<"c", "a", "r", "t", "e">>
    /\ call.method = <<"C", "a", "r", "t", "e", " ">>
    /\ ret.normalized = POS

\* the calls log are the steps 1..Len(log), in order, each with total_steps
StepsInOrder(log, total_steps) ==
    /\ Len(log) <= total_steps
    /\ \A k \in DOMAIN log : log[k] = [step |-> k, total_steps |-> total_steps]

C37_TempDirRemoved ==
    ret.op = "restore" => ~temp.exists

\* rows and signatures of every protocol id but p are the same before and
\* after the step, and no row appears or disappears
OnlyTouches(p) ==
    /\ DOMAIN db'.subs = DOMAIN db.subs
    /\ \A q \in DOMAIN db.subs \ {p} : db'.subs[q] = db.subs[q]
    /\ DOMAIN db'.sigs \ {p} = DOMAIN db.sigs \ {p}
    /\ \A q \in DOMAIN db.sigs \ {p} : db'.sigs[q] = db.sigs[q]

\* C34: the steps of update_subscription(p, ...) on an existing record leave
\* every other row and every other signature as they were; the UPDATE keeps
\* p's created_at and sets p's updated_at to the time of the update; the
\* INSERT of add_subscription stores created_at = updated_at.
C34_UpdateTouchesOnlyItsRecord ==
    [][/\ (pc = "idle" /\ pc' = "upd_sign") =>
             LET p == call'.protocol_id IN
             /\ OnlyTouches(p)
             /\ p \in DOMAIN db'.subs
             /\ db'.subs[p].created_at = db.subs[p].created_at
             /\ db'.subs[p].updated_at = Isoformat(clock)
       /\ pc \in {"upd_sign", "upd_audit"} =>
             /\ OnlyTouches(call.protocol_id)
             /\ db'.subs = db.subs
       /\ (pc = "idle" /\ pc' = "add_sign") =>
             LET p == call'.protocol_id IN
             db'.subs[p].created_at = db'.subs[p].updated_at
      ]_vars

\* update_subscription returned true for a record created at an earlier
\* time, with a second record stored
C34_Witness ==
    /\ ret.op = "update" /\ ret.kind = "true"
    /\ Cardinality(DOMAIN db.subs) >= 2
    /\ ret.protocol_id \in DOMAIN db.subs
    /\ db.subs[ret.protocol_id].created_at # db.subs[ret.protocol_id].updated_at

\* ------------------------------------------- two callers on one storage
\* a second add_subscription call (another process or thread on the same
\* storage file), one statement at a time; sqlite3.connect has the default
\* busy timeout of five seconds
OtherIdle == other.op \in {"none", "returned"}

\* lines 180-204: a failed INSERT leaves add_subscription by the exception,
\* conn.close() is not reached; the connection stays inside its implicit
\* transaction and holds the write lock while the exception is alive
\* (the message box of main_window.py line 368)
OtherHoldsWriteLock == other.op = "failed"

\* lines 846-1003: the transaction of the bulk import holds the write lock
\* from its first INSERT to its commit or rollback
BulkHoldsWriteLock == pc = "bulk" /\ call.idx >= 1

\* lines 860-870 read in the transaction: its snapshot is stale once the
\* other caller has committed, the first INSERT then raises
\* sqlite3.OperationalError
SnapshotStale == pc = "bulk" /\ call.idx = 0 /\ tx.d # db

race == <<keyFiles, keysDir, crypto, hmac, nkeys, archives, safety, temp,
          tempbackup, requests, granted>>

\* lines 152-154: _get_protocol_id on its own connection, then now
OtherGetId(in) ==
    /\ OtherIdle
    /\ clock < MaxClock
    /\ other' = [op |-> "insert", args |-> in,
                 protocol_id |-> GetProtocolId(ReadCommitted(db, tx).subs),
                 method |-> StripUpper(in.payment_method), now |-> clock]
    /\ clock' = clock + 1
    /\ UNCHANGED <<db, pc, call, tx, ret, race>>

\* lines 180-204: INSERT and commit, or sqlite3.IntegrityError of the
\* PRIMARY KEY of schema.py
OtherInsert ==
    /\ other.op = "insert"
    /\ ~BulkHoldsWriteLock
    /\ IF other.protocol_id \in DOMAIN db.subs
       THEN /\ other' = [other EXCEPT !.op = "failed"]
            /\ UNCHANGED db
       ELSE /\ db' = [db EXCEPT !.subs =
                         Put(@, other.protocol_id,
                             InsertRow(crypto.fernet, other.args, other.method,
                                       other.now))]
            /\ other' = [other EXCEPT !.op = "sign"]
    /\ UNCHANGED <<clock, pc, call, tx, ret, race>>

\* line 206
OtherSign ==
    /\ other.op = "sign"
    /\ ~BulkHoldsWriteLock
    /\ db' = UpdateIntegritySignature(db, hmac, other.protocol_id)
    /\ other' = [other EXCEPT !.op = "audit"]
    /\ UNCHANGED <<clock, pc, call, tx, ret, race>>

\* lines 208-217
OtherAudit ==
    /\ other.op = "audit"
    /\ ~BulkHoldsWriteLock
    /\ db' = AddAuditLog(db, "INSERT", other.protocol_id, NullData,
                         SubscriptionData(other.protocol_id, other.args,
                                          other.method, other.now),
                         CurrentTimestamp(clock))
    /\ other' = [op |-> "returned", kind |-> "ok", at |-> "audit",
                 protocol_id |-> other.protocol_id]
    /\ UNCHANGED <<clock, pc, call, tx, ret, race>>

\* a write that waits for the lock longer than the busy timeout raises
\* sqlite3.OperationalError (database is locked)
OtherTimeout ==
    /\ other.op \in {"insert", "sign", "audit"}
    /\ BulkHoldsWriteLock
    /\ other' = [op |-> "returned", kind |-> "raised", at |-> other.op,
                 protocol_id |-> other.protocol_id]
    /\ UNCHANGED <<db, clock, pc, call, tx, ret, race>>

\* the exception is dropped, the connection is collected and rolls back
OtherRelease ==
    /\ other.op = "failed"
    /\ other' = [op |-> "returned", kind |-> "raised", at |-> "insert",
                 protocol_id |-> other.protocol_id]
    /\ UNCHANGED <<db, clock, pc, call, tx, ret, race>>

\* the first caller's statements wait for the write lock
RaceAddInsert(in) == ~OtherHoldsWriteLock /\ AddInsert(in)
RaceAddSign == ~OtherHoldsWriteLock /\ AddSign
RaceAddAudit == ~OtherHoldsWriteLock /\ AddAudit
RaceTimeout ==
    /\ OtherHoldsWriteLock
    /\ pc \in {"add_sign", "add_audit"}
    /\ StepRaises
RaceBulkRow == ~OtherHoldsWriteLock /\ ~SnapshotStale /\ BulkRow
RaceBulkFail == (OtherHoldsWriteLock \/ SnapshotStale) /\ BulkFail

NextRace ==
    \/ \E in \in Inputs : RaceAddInsert(in)
    \/ RaceAddSign
    \/ RaceAddAudit
    \/ RaceTimeout
    \/ \E rows \in Batches : BulkBegin(rows)
    \/ RaceBulkRow
    \/ RaceBulkFail
    \/ BulkCommit
    \/ \E in \in Inputs : OtherGetId(in)
    \/ OtherInsert
    \/ OtherSign
    \/ OtherAudit
    \/ OtherTimeout
    \/ OtherRelease

SpecRace == Init /\ [][NextRace]_vars

\* both callers have returned
BothReturned == pc = "idle" /\ OtherIdle

InsertAudited(d, p) ==
    \E i \in DOMAIN d.audit :
        /\ d.audit[i].operation_type = "INSERT"
        /\ d.audit[i].protocol_id = p

\* C35: once two concurrent callers (add_subscription against
\* add_subscription, or against bulk_add_subscriptions) have returned, every
\* stored record has a valid signature and its own INSERT audit entry, and a
\* call that failed at its INSERT left no trace.
C35_RacingAddsLeaveSignedAuditedRows ==
    BothReturned =>
        \A p \in DOMAIN db.subs : Intact(db, hmac, p) /\ InsertAudited(db, p)

\* ------------------------------------ two constructions on one directory
\* a second constructor (BotThread.run, or another process) over the key
\* directory dir, path.exists() and the read or write that follows it as
\* separate steps
OtherConstructBegin(class, dir) ==
    /\ OtherIdle
    /\ keyFiles' = [keyFiles EXCEPT ![dir].exists = TRUE]
    /\ other' = [op |-> "construct", class |-> class, dir |-> dir,
                 pre |-> keyFiles[dir], held |-> <<>>, checked |-> FALSE,
                 found |-> FALSE]
    /\ UNCHANGED <<db, clock, pc, call, tx, ret, keysDir, crypto, hmac, nkeys,
                   archives, safety, temp, tempbackup, requests, granted>>

\* if path.exists():
OtherExists ==
    /\ other.op = "construct"
    /\ ~other.checked
    /\ Len(other.held) < Len(KeySteps(other.class))
    /\ LET n == KeySteps(other.class)[Len(other.held) + 1]
       IN other' = [other EXCEPT !.checked = TRUE,
                                 !.found = KeyFile(keyFiles[other.dir], n) # NoKey]
    /\ UNCHANGED <<db, clock, pc, call, tx, ret, keyFiles, keysDir, crypto,
                   hmac, nkeys, archives, safety, temp, tempbackup, requests,
                   granted>>

\* the branch taken on the answer of path.exists(): read the file, or
\* generate a key and open(path, "wb") over whatever is there by now
OtherLoadOrGenerate ==
    /\ other.op = "construct"
    /\ other.checked
    /\ LET n == KeySteps(other.class)[Len(other.held) + 1]
           r == LoadOrGenerate(IF other.found THEN KeyFile(keyFiles[other.dir], n)
                               ELSE NoKey, nkeys + 1)
       IN /\ r.generated => nkeys < MaxKeys + 1
          /\ keyFiles' = IF n = "fernet"
                         THEN [keyFiles EXCEPT ![other.dir].fernet = r.file]
                         ELSE [keyFiles EXCEPT ![other.dir].hmac = r.file]
          /\ nkeys' = IF r.generated THEN nkeys + 1 ELSE nkeys
          /\ other' = [other EXCEPT !.held = Append(@, r.key),
                                    !.checked = FALSE]
    /\ UNCHANGED <<db, clock, pc, call, tx, ret, keysDir, crypto, hmac,
                   archives, safety, temp, tempbackup, requests, granted>>

OtherConstructReturn ==
    /\ other.op = "construct"
    /\ Len(other.held) = Len(KeySteps(other.class))
    /\ other' = [other EXCEPT !.op = "returned"]
    /\ UNCHANGED <<db, clock, pc, call, tx, ret, keyFiles, keysDir, crypto,
                   hmac, nkeys, archives, safety, temp, tempbackup, requests,
                   granted>>

Classes == {"CryptoManager", "HMACManager", "DatabaseManager"}

NextKeyRace ==
    \/ \E class \in Classes, dir \in KeyDirs : ConstructBegin(class, dir)
    \/ ConstructStep
    \/ ConstructReturn
    \/ \E class \in Classes, dir \in KeyDirs : OtherConstructBegin(class, dir)
    \/ OtherExists
    \/ OtherLoadOrGenerate
    \/ OtherConstructReturn

SpecKeyRace == Init /\ [][NextKeyRace]_vars

\* the construction c started over a key directory without key files
OverEmptyDir(c) == c.pre.fernet = NoKey /\ c.pre.hmac = NoKey

\* every key the instance c holds is the key in its key file
HoldsFileKeys(c) ==
    \A i \in 1..Len(c.held) :
        c.held[i] = KeyFile(keyFiles[c.dir], KeySteps(c.class)[i])

\* C36: when two constructions that started over the same key directory
\* without key files have both returned, both instances hold the keys that
\* are in the key files (hence the same vault key and the same HMAC key).
C36_ConcurrentConstructionsAgree ==
    ( /\ ret.op = "construct"
      /\ "class" \in DOMAIN other /\ other.op = "returned"
      /\ ret.dir = other.dir
      /\ OverEmptyDir(ret) /\ OverEmptyDir(other) )
    => HoldsFileKeys(ret) /\ HoldsFileKeys(other)

\* ------------------------------------------------------------ RateLimiter
\* rate_limiter.py; time.time() is clock, counted in ticks of a second
\* (TicksPerSecond), so that requests fall between whole seconds
max_requests == 2       \* RateLimiter(max_requests=config.rate_limit_per_minute)
window_seconds == 1     \* RateLimiter(window_seconds=60)
WindowTicks == window_seconds * TicksPerSecond

\* lines 37 and 61: user_queue[0] < now - self.window_seconds
ExpiredBug(timestamp, now) == timestamp <= now - WindowTicks
Expired(timestamp, now) == timestamp < now - WindowTicks

\* lines 36-38 and 60-62: while user_queue and expired: popleft()
RECURSIVE Popleft(_, _)
Popleft(user_queue, now) ==
    IF user_queue # <<>> /\ Expired(Head(user_queue), now)
    THEN Popleft(Tail(user_queue), now)
    ELSE user_queue

\* lines 69-70: int((oldest_request + self.window_seconds) - now) + 1, in
\* seconds; the difference is not negative after the pruning
WaitTimeBug(oldest_request, now) ==
    ((oldest_request + WindowTicks) - now) \div TicksPerSecond
WaitTime(oldest_request, now) ==
    ((oldest_request + WindowTicks) - now) \div TicksPerSecond + 1

\* line 71
Max0(n) == IF n > 0 THEN n ELSE 0

\* lines 41-46: the answer of is_allowed on the pruned queue
Admits(user_queue) == ~(Len(user_queue) >= max_requests)

\* the timestamps of the history h in the closed interval [t - window, t]
InWindow(h, t) == {k \in DOMAIN h : t - WindowTicks <= h[k] /\ h[k] <= t}

\* the wait announced to the user (handlers.py lines 175-179) is due now
Due(user_id) ==
    call.op = "wait" /\ call.user_id = user_id /\ call.until = clock

\* RateLimiter.is_allowed(user_id), lines 23-46
IsAllowed(user_id) ==
    /\ pc = "idle"
    /\ call.op \in {"none", "wait"}
    /\ LET user_queue == Popleft(requests[user_id], clock)
       IN /\ ret' = [op |-> "is_allowed", user_id |-> user_id, now |-> clock,
                     result |-> Admits(user_queue),
                     recent |-> Cardinality(InWindow(granted[user_id], clock)),
                     due |-> Due(user_id),
                     denied |-> Due(user_id) /\ call.denied]
          /\ IF Admits(user_queue)
             THEN /\ requests' = [requests EXCEPT ![user_id] =
                                     Append(user_queue, clock)]
                  /\ granted' = [granted EXCEPT ![user_id] = Append(@, clock)]
                  /\ call' = IF call.op = "wait" /\ call.user_id = user_id
                             THEN NoCall ELSE call
             ELSE /\ requests' = [requests EXCEPT ![user_id] = user_queue]
                  /\ call' = IF call.op = "wait" /\ call.user_id = user_id
                             THEN [call EXCEPT !.denied = TRUE] ELSE call
                  /\ UNCHANGED granted
    /\ UNCHANGED <<db, clock, pc, tx, keyFiles, keysDir, crypto, hmac, nkeys,
                   archives, safety, temp, tempbackup, other>>

\* RateLimiter.get_wait_time(user_id), lines 48-71
GetWaitTime(user_id) ==
    /\ pc = "idle"
    /\ call.op \in {"none", "wait"}
    /\ LET user_queue == Popleft(requests[user_id], clock)
           wait_time == IF Len(user_queue) < max_requests THEN 0
                        ELSE Max0(WaitTime(user_queue[1], clock))
       IN /\ requests' = [requests EXCEPT ![user_id] = user_queue]
          /\ ret' = [op |-> "get_wait_time", user_id |-> user_id,
                     now |-> clock, wait_time |-> wait_time,
                     allowed |-> Admits(user_queue)]
          /\ call' = IF wait_time > 0
                     THEN [op |-> "wait", user_id |-> user_id,
                           until |-> clock + wait_time * TicksPerSecond,
                           denied |-> FALSE]
                     ELSE call
    /\ UNCHANGED <<db, clock, pc, tx, keyFiles, keysDir, crypto, hmac, nkeys,
                   archives, safety, temp, tempbackup, other, granted>>

\* time passes
Tick ==
    /\ pc = "idle"
    /\ clock < MaxTime
    /\ clock' = clock + 1
    /\ UNCHANGED <<db, pc, call, tx, ret, keyFiles, keysDir, crypto, hmac,
                   nkeys, archives, safety, temp, tempbackup, other, requests,
                   granted>>

NextLimiter ==
    \/ \E user_id \in Users : IsAllowed(user_id)
    \/ \E user_id \in Users : GetWaitTime(user_id)
    \/ Tick

SpecLimiter == Init /\ [][NextLimiter]_vars

\* C38: for every user and every instant t, at most max_requests of the
\* user's requests that is_allowed admitted have a timestamp in
\* [t - window_seconds, t]; and is_allowed admits a request exactly when
\* fewer than max_requests admitted requests of that user lie in the window,
\* whatever the other users did and however many requests were denied.
C38_AtMostMaxRequestsPerWindow ==
    /\ \A user_id \in Users, t \in 0..MaxTime :
          Cardinality(InWindow(granted[user_id], t)) <= max_requests
    /\ ret.op = "is_allowed" => (ret.result <=> ret.recent < max_requests)

\* a user is denied after having been admitted again in a later window,
\* while the other user has admitted requests of its own
C38_Witness ==
    /\ ret.op = "is_allowed" /\ ~ret.result
    /\ Len(granted[ret.user_id]) > max_requests
    /\ \E user_id \in Users : user_id # ret.user_id /\ granted[user_id] # <<>>

\* C39: get_wait_time returns 0 exactly when is_allowed would admit the
\* user at that time, and the request made when an announced wait is over is
\* admitted.
C39_AdmittedAfterAnnouncedWait ==
    /\ ret.op = "get_wait_time" => (ret.wait_time = 0 <=> ret.allowed)
    /\ (ret.op = "is_allowed" /\ ret.due) => ret.result

\* a user who was denied again during the announced wait is admitted when
\* the wait is over
C39_Witness ==
    /\ ret.op = "is_allowed" /\ ret.due /\ ret.denied /\ ret.result

====
